---- MODULE Spec2Model ----
(***************************************************************************)
(* A model of the dbt-semantics-to-Sigma converter:                        *)
(*   - SemanticModelAnalyzer (entity index, model parsing, dependency      *)
(*     graph, update-mode file selection),                                 *)
(*   - TopologicalSorter.sort (layering of the dependency map),            *)
(*   - LayerProcessor (processAllLayers, processLayer, processDbtModel),   *)
(*   - the expression translator (convertExpressionToSigma, convertCase,   *)
(*     convertConcat, convertSplitPart, convertColumnReferences).          *)
(***************************************************************************)
EXTENDS Integers, Sequences, FiniteSets, TLC

VARIABLES
  dir,                 \* the semantic-model directory: Seq of [file, models]
  mode,                \* "initial" | "update"            (process.env.MODE)
  changedFiles,        \* update mode: Seq of changed file names
  pc,                  \* position of the run
  entityToFileMap,     \* SemanticModelAnalyzer.entityToFileMap
  models,              \* SemanticModelAnalyzer.models (insertion-ordered Map)
  dependencies,        \* SemanticModelAnalyzer.dependencies (insertion-ordered Map)
  layers,              \* TopologicalSorter.layers
  processed,           \* TopologicalSorter.processed
  previousLayerModels, \* sort(): previousLayerModels
  currentLayer,        \* sort(): currentLayer
  warnings,            \* console.warn output of the sorter
  dagFile,             \* the JSON file written by exportDAG
  sigmaModelDir,       \* sigma_model folder: model name -> dataModelId of its file
  testFlag,            \* process.env.TEST_FLAG === 'true'
  ppc,                 \* position of processAllLayers / processLayer
  dagData,             \* processAllLayers: dagData
  allResults,          \* processAllLayers: allResults
  layerIdx,            \* processAllLayers: position of the for loop over layers
  modelIdx,            \* processLayer: position of the for loop over models
  results,             \* processLayer: results
  calls,               \* the processDbtModel calls: model name -> promise state
  started,             \* the models processDbtModel was called for, in call order
  procLog,             \* console.warn output of convertSemantics
  flag,                \* process.env.USER_FRIENDLY_COLUMN_NAMES === 'true'
  input,               \* the expression handed to the translator
  epc,                 \* position of the translation run
  output,              \* convertExpressionToSigma(input)
  output2,             \* convertExpressionToSigma(output)
  colrefs,             \* convertColumnReferences(input)
  caseOut,             \* convertCase(input, convertExpressionToSigma)
  concatOut,           \* convertConcat(input)
  splitOut,            \* convertSplitPart(input, convertExpressionToSigma)
  passes,              \* convertExpressionToSigma(input): iterations when the loop is left
  nesting,             \* convertExpressionToSigma(input): the deepest nesting of its invocations
  fpc,                 \* position of the filter conversion
  filterStr,           \* the filter handed to convertFilterToSigma
  filterOut,           \* convertFilterToSigma(filterStr, modelName)
  mpc,                 \* convertSemantics: the metric pass that is running
  sourceMetrics,       \* sourceData.metrics
  mpos,                \* position of the forEach of the running pass
  convertedMetrics,    \* convertedMetrics: name -> formula object
  modelMetrics,        \* targetData.pages[0].elements[0].metrics
  crossModelMetrics,   \* crossModelMetrics
  tpc,                 \* position of addTimeRelationships
  timeSemanticModel,   \* addTimeRelationships: semanticModel
  timeSpineFile,       \* the models of the time spine file (NULL: no such file)
  targetIn,            \* targetData as it was handed to addTimeRelationships
  targetData,          \* addTimeRelationships: targetData.pages[0].elements
  aggTimeDimensions,   \* addTimeRelationships: aggTimeDimensions
  tpos,                \* position of the forEach over aggTimeDimensions
  addedTimeSpines,     \* addTimeRelationships: addedTimeSpines (granularity -> elementId)
  timeSpineGranularityMap  \* addTimeRelationships: timeSpineGranularityMap

dagVars == <<dir, mode, changedFiles, pc, entityToFileMap, models, dependencies,
             layers, processed, previousLayerModels, currentLayer, warnings>>

procVars == <<dagFile, sigmaModelDir, testFlag, ppc, dagData, allResults, layerIdx,
              modelIdx, results, calls, started, procLog>>

exprVars == <<flag, input, epc, output, output2, colrefs, caseOut, concatOut, splitOut,
             passes, nesting>>

metricVars == <<fpc, filterStr, filterOut, mpc, sourceMetrics, mpos, convertedMetrics,
                modelMetrics, crossModelMetrics>>

timeVars == <<tpc, timeSemanticModel, timeSpineFile, targetIn, targetData,
              aggTimeDimensions, tpos, addedTimeSpines, timeSpineGranularityMap>>

vars == <<dagVars, procVars, exprVars, metricVars, timeVars>>

NULL == "<null>"

\* the value of a result variable whose function has not been called yet
NotRun == <<"<not run>">>

(***************************************************************************)
(* Generic helpers for insertion-ordered collections.                      *)
(***************************************************************************)
Range(s) == {s[i] : i \in DOMAIN s}

Contains(s, x) == \E i \in DOMAIN s : s[i] = x

RECURSIVE Flatten(_)
Flatten(ss) == IF ss = <<>> THEN <<>> ELSE Head(ss) \o Flatten(Tail(ss))

\* Array.prototype.map
MapSeq(F(_), s) == [i \in 1..Len(s) |-> F(s[i])]

\* index of the entry of an insertion-ordered Map with the given name (0: none)
IndexOfName(m, n) ==
  IF \E i \in DOMAIN m : m[i].name = n
    THEN CHOOSE i \in DOMAIN m : m[i].name = n
    ELSE 0

MapHas(m, n) == IndexOfName(m, n) # 0

MapGet(m, n) == m[IndexOfName(m, n)]

MapKeys(m) == {m[i].name : i \in DOMAIN m}

\* Map.prototype.set: an existing key keeps its position, a new key is appended
MapSet(m, e) ==
  IF MapHas(m, e.name)
    THEN [m EXCEPT ![IndexOfName(m, e.name)] = e]
    ELSE Append(m, e)

RECURSIVE MapSetAll(_, _)
MapSetAll(m, es) == IF es = <<>> THEN m ELSE MapSetAll(MapSet(m, Head(es)), Tail(es))

(***************************************************************************)
(* The input corpus.                                                       *)
(***************************************************************************)
Models == {"a", "b", "c"}

ModelOrder == <<"a", "b", "c">>

\* the name of a model's key entity when it differs from the model's name
Alias(m) == CASE m = "a" -> "ka" [] m = "b" -> "kb" [] OTHER -> "kc"

\* a foreign entity name that no model declares
Ghost == "ghost"

\* how a model declares its own key entity
KeyOptions == {"own", "alias", "unique", "none"}

KeyEntity(m, opt) ==
  CASE opt = "own"    -> <<[name |-> m, type |-> "primary"]>>
    [] opt = "alias"  -> <<[name |-> Alias(m), type |-> "primary"]>>
    [] opt = "unique" -> <<[name |-> Alias(m), type |-> "unique"]>>
    [] OTHER          -> <<>>

\* the entity name under which model n is referenced by a foreign entity
RefName(n, keyOpt) ==
  IF n = Ghost THEN Ghost
  ELSE IF keyOpt[n] \in {"alias", "unique"} THEN Alias(n) ELSE n

ForeignEntities(m, keyOpt, refs) ==
  LET targets == SelectSeq(ModelOrder \o <<Ghost>>, LAMBDA n : n \in refs[m])
      Ent(n)  == [name |-> RefName(n, keyOpt), type |-> "foreign"]
  IN  MapSeq(Ent, targets)

SemanticModel(m, keyOpt, refs) ==
  [name     |-> m,
   entities |-> KeyEntity(m, keyOpt[m]) \o ForeignEntities(m, keyOpt, refs)]

\* file layouts: one model per file, or b and c in one file
Layouts ==
  { << [file |-> "f1", names |-> <<"a">>], [file |-> "f2", names |-> <<"b">>],
       [file |-> "f3", names |-> <<"c">>] >>,
    << [file |-> "f1", names |-> <<"a">>], [file |-> "f2", names |-> <<"b", "c">>] >> }

SingleLayout ==
  << [file |-> "f1", names |-> <<"a">>], [file |-> "f2", names |-> <<"b">>],
     [file |-> "f3", names |-> <<"c">>] >>

MakeDir(layout, keyOpt, refs) ==
  LET Sm(m)  == SemanticModel(m, keyOpt, refs)
      File(f) == [file |-> f.file, models |-> MapSeq(Sm, f.names)]
  IN  MapSeq(File, layout)

RefChoices == {r \in [Models -> SUBSET (Models \cup {Ghost})] : \A m \in Models : m \notin r[m]}

Corpora(layout, keyOpts) ==
  {MakeDir(layout, k, r) : k \in [Models -> keyOpts], r \in RefChoices}

(***************************************************************************)
(* SemanticModelAnalyzer                                                   *)
(***************************************************************************)
\* the (entity, file, model) triples buildEntityToFileMap records, in order
KeyEntries(d) ==
  LET OfModel(f, sm) ==
        MapSeq(LAMBDA e : [entity |-> e.name, fileName |-> f, semanticModelName |-> sm.name],
               SelectSeq(sm.entities, LAMBDA e : e.type = "primary" \/ e.type = "unique"))
      OfFile(f) == Flatten(MapSeq(LAMBDA sm : OfModel(f.file, sm), f.models))
  IN  Flatten(MapSeq(OfFile, d))

\* buildEntityToFileMap: Map.set per entry, so the last definition of a name wins
buildEntityToFileMap(d) ==
  LET es == KeyEntries(d)
      Last(n) == CHOOSE i \in DOMAIN es :
                   es[i].entity = n /\ \A j \in DOMAIN es : es[j].entity = n => j <= i
  IN  [n \in {es[i].entity : i \in DOMAIN es} |->
         [fileName |-> es[Last(n)].fileName,
          semanticModelName |-> es[Last(n)].semanticModelName]]

\* parseSemanticModel, for one semantic model of a file
ModelInfo(f, sm, etfm) ==
  LET prim == SelectSeq(sm.entities, LAMBDA e : e.type = "primary")
      Foreign(e) ==
        IF e.name \in DOMAIN etfm
          THEN [name |-> e.name, file |-> etfm[e.name].fileName,
                semanticModelName |-> etfm[e.name].semanticModelName]
          ELSE [name |-> e.name, file |-> NULL, semanticModelName |-> NULL]
  IN  [fileName        |-> f,
       name            |-> sm.name,
       primaryEntity   |-> IF prim = <<>> THEN NULL ELSE prim[Len(prim)].name,
       foreignEntities |-> MapSeq(Foreign, SelectSeq(sm.entities, LAMBDA e : e.type = "foreign")),
       allEntities     |-> MapSeq(LAMBDA e : e.name, sm.entities)]

FileIndex(d, f) == CHOOSE i \in DOMAIN d : d[i].file = f

parseSemanticModel(d, f, etfm) ==
  MapSeq(LAMBDA sm : ModelInfo(f, sm, etfm), d[FileIndex(d, f)].models)

\* analyzeDirectory: the models Map after parsing every file of the directory
analyzeDirectory(d, etfm, m0) ==
  MapSetAll(m0, Flatten(MapSeq(LAMBDA f : parseSemanticModel(d, f.file, etfm), d)))

\* buildDependencyGraph, first loop: one record per model
DependsOnOf(modelInfo) == MapSeq(LAMBDA fe : fe.name, modelInfo.foreignEntities)

\* buildDependencyGraph, second loop: the reverse edges pushed onto model n
DependentsOf(ms, n) ==
  LET Pushes(mi) == MapSeq(LAMBDA dep : mi.name,
                           SelectSeq(DependsOnOf(mi), LAMBDA dep : dep = n))
  IN  Flatten(MapSeq(Pushes, ms))

buildDependencyGraph(ms) ==
  MapSeq(LAMBDA mi : [name       |-> mi.name,
                      dependsOn  |-> DependsOnOf(mi),
                      dependents |-> DependentsOf(ms, mi.name)], ms)

\* analyzeFiles, step 3: the names of the models defined in the changed files
ChangedModelNames(d, files, etfm) ==
  MapSeq(LAMBDA mi : mi.name,
         Flatten(MapSeq(LAMBDA f : parseSemanticModel(d, f, etfm), files)))

\* Set.prototype.add on an insertion-ordered Set
SetAdd(s, x) == IF Contains(s, x) THEN s ELSE Append(s, x)

\* analyzeFiles, step 4: findDependents(modelName), threading the two Sets
\* st = [include |-> modelsToInclude, files |-> filesToAnalyze]
RECURSIVE findDependents(_, _, _, _)
RECURSIVE ForEachDependent(_, _, _, _)
findDependents(deps, ms, modelName, st) ==
  IF ~MapHas(deps, modelName) THEN st
  ELSE ForEachDependent(deps, ms, MapGet(deps, modelName).dependents, st)

ForEachDependent(deps, ms, ds, st) ==
  IF ds = <<>> THEN st
  ELSE IF Head(ds) \in st.include THEN ForEachDependent(deps, ms, Tail(ds), st)
  ELSE LET st1 == [st EXCEPT !.include = @ \cup {Head(ds)}]
           st2 == IF MapHas(ms, Head(ds))
                    THEN findDependents(deps, ms, Head(ds),
                           [st1 EXCEPT !.files = SetAdd(@, MapGet(ms, Head(ds)).fileName)])
                    ELSE st1
       IN  ForEachDependent(deps, ms, Tail(ds), st2)

RECURSIVE FindAllDependents(_, _, _, _)
FindAllDependents(deps, ms, changed, st) ==
  IF changed = <<>> THEN st
  ELSE FindAllDependents(deps, ms, Tail(changed), findDependents(deps, ms, Head(changed), st))

\* analyzeFiles, step 4: the files to analyze (changed files, then dependents' files)
FilesToAnalyze(d, files, etfm) ==
  LET all     == analyzeDirectory(d, etfm, <<>>)
      deps    == buildDependencyGraph(all)
      changed == ChangedModelNames(d, files, etfm)
  IN  FindAllDependents(deps, all, changed,
                        [include |-> Range(changed), files |-> files]).files

\* analyzeFiles, step 5: the models Map rebuilt from the files to analyze
analyzeFiles(d, files, etfm) ==
  MapSetAll(<<>>, Flatten(MapSeq(LAMBDA f : parseSemanticModel(d, f, etfm),
                                 FilesToAnalyze(d, files, etfm))))

(***************************************************************************)
(* TopologicalSorter                                                       *)
(***************************************************************************)
\* the object pushed onto a layer for a model
LayerModel(ms, n) ==
  LET mi == MapGet(ms, n)
  IN  [name |-> n, fileName |-> mi.fileName, primaryEntity |-> mi.primaryEntity,
       foreignEntities |-> mi.foreignEntities]

LayerNames(layer) == {layer.models[i].name : i \in DOMAIN layer.models}

\* sort(): the models of layer 1
Layer1Models(deps) == SelectSeq(deps, LAMBDA di : Len(di.dependsOn) = 0)

\* sort(): every dependency is among the models of the previous layers
AllDependenciesResolved(depInfo, prev) ==
  \A i \in DOMAIN depInfo.dependsOn : depInfo.dependsOn[i] \in prev

\* sort(): the models one pass of the for loop places
ResolvedModels(deps, proc, prev) ==
  SelectSeq(deps, LAMBDA di : di.name \notin proc /\ AllDependenciesResolved(di, prev))

\* sort(): the models not yet processed
RemainingModels(deps, proc) == SelectSeq(deps, LAMBDA di : di.name \notin proc)

\* a sorter that breaks a cycle by placing only the first remaining model
CycleBreakFirstOnly(remaining) == <<remaining[1]>>

\* sort(): the models added to the current layer to break a cycle
CycleBreakModels(remaining) == remaining

\* sort(): the models of the current layer after one iteration of the while loop
CurrentLayerModels(deps, proc, prev) ==
  IF ResolvedModels(deps, proc, prev) # <<>>
    THEN ResolvedModels(deps, proc, prev)
    ELSE CycleBreakModels(RemainingModels(deps, proc))

(***************************************************************************)
(* The run of buildDAG                                                     *)
(***************************************************************************)
\* buildDAG, initial mode: analyzer.analyzeDirectory(modelsDirectoryPath)
AnalyzeDirectory ==
  /\ pc = "start"
  /\ UNCHANGED <<procVars, exprVars, metricVars, timeVars>>
  /\ mode = "initial"
  /\ entityToFileMap' = buildEntityToFileMap(dir)
  /\ models' = analyzeDirectory(dir, buildEntityToFileMap(dir), models)
  /\ pc' = "analyzed"
  /\ UNCHANGED <<dir, mode, changedFiles, dependencies, layers, processed,
                 previousLayerModels, currentLayer, warnings>>

\* buildDAG, update mode: analyzer.analyzeFiles(specificFiles, modelsDirectoryPath)
AnalyzeFiles ==
  /\ pc = "start"
  /\ UNCHANGED <<procVars, exprVars, metricVars, timeVars>>
  /\ mode = "update"
  /\ entityToFileMap' = buildEntityToFileMap(dir)
  /\ dependencies' =
       buildDependencyGraph(analyzeDirectory(dir, buildEntityToFileMap(dir), <<>>))
  /\ models' = analyzeFiles(dir, changedFiles, buildEntityToFileMap(dir))
  /\ pc' = "analyzed"
  /\ UNCHANGED <<dir, mode, changedFiles, layers, processed,
                 previousLayerModels, currentLayer, warnings>>

\* buildDAG, step 2: analyzer.buildDependencyGraph()
BuildDependencyGraph ==
  /\ pc = "analyzed"
  /\ UNCHANGED <<procVars, exprVars, metricVars, timeVars>>
  /\ dependencies' = buildDependencyGraph(models)
  /\ pc' = "graph"
  /\ UNCHANGED <<dir, mode, changedFiles, entityToFileMap, models, layers, processed,
                 previousLayerModels, currentLayer, warnings>>

\* sort(), up to the while loop: layer 1
SortStart ==
  /\ pc = "graph"
  /\ UNCHANGED <<procVars, exprVars, metricVars, timeVars>>
  /\ LET layer1 == MapSeq(LAMBDA di : LayerModel(models, di.name), Layer1Models(dependencies))
     IN  /\ layers' = IF Len(layer1) > 0 THEN <<[layer |-> 1, models |-> layer1]>> ELSE <<>>
         /\ processed' = {layer1[i].name : i \in DOMAIN layer1}
         /\ previousLayerModels' = {layer1[i].name : i \in DOMAIN layer1}
  /\ currentLayer' = 2
  /\ pc' = "sorting"
  /\ UNCHANGED <<dir, mode, changedFiles, entityToFileMap, models, dependencies, warnings>>

\* sort(): one iteration of the while loop
SortRound ==
  /\ pc = "sorting"
  /\ UNCHANGED <<procVars, exprVars, metricVars, timeVars>>
  /\ Cardinality(processed) < Len(dependencies)
  /\ LET placed == MapSeq(LAMBDA di : LayerModel(models, di.name),
                          CurrentLayerModels(dependencies, processed, previousLayerModels))
         names  == {placed[i].name : i \in DOMAIN placed}
     IN  /\ warnings' =
               IF ResolvedModels(dependencies, processed, previousLayerModels) = <<>>
                 THEN Append(warnings,
                        [kind |-> "circular",
                         models |-> MapSeq(LAMBDA di : di.name,
                                           RemainingModels(dependencies, processed))])
                 ELSE warnings
         /\ layers' = IF Len(placed) > 0
                        THEN Append(layers, [layer |-> currentLayer, models |-> placed])
                        ELSE layers
         /\ processed' = processed \cup names
         /\ previousLayerModels' = previousLayerModels \cup names
  /\ currentLayer' = currentLayer + 1
  /\ UNCHANGED <<dir, mode, changedFiles, pc, entityToFileMap, models, dependencies>>

\* sort(): the while loop ends and the layers are returned
SortReturn ==
  /\ pc = "sorting"
  /\ UNCHANGED <<procVars, exprVars, metricVars, timeVars>>
  /\ ~(Cardinality(processed) < Len(dependencies))
  /\ pc' = "sorted"
  /\ UNCHANGED <<dir, mode, changedFiles, entityToFileMap, models, dependencies, layers,
                 processed, previousLayerModels, currentLayer, warnings>>

FileNames(layout) == MapSeq(LAMBDA f : f.file, layout)

\* the non-empty sub-lists of a list of files, in directory order
ChangedChoices(layout) ==
  {SelectSeq(FileNames(layout), LAMBDA f : f \in S) :
     S \in (SUBSET Range(FileNames(layout))) \ {{}}}

InitRest ==
  /\ pc = "start"
  /\ entityToFileMap = <<>>
  /\ models = <<>>
  /\ dependencies = <<>>
  /\ layers = <<>>
  /\ processed = {}
  /\ previousLayerModels = {}
  /\ currentLayer = 0
  /\ warnings = <<>>

InitInitial ==
  /\ mode = "initial"
  /\ changedFiles = <<>>
  /\ dir \in Corpora(SingleLayout, KeyOptions)
  /\ InitRest

InitUpdate ==
  /\ mode = "update"
  /\ \E layout \in Layouts :
       /\ dir \in {MakeDir(layout, k, r) : k \in [Models -> {"own", "alias"}],
                                           r \in [Models -> SUBSET Models]}
       /\ \A i \in DOMAIN dir : \A j \in DOMAIN dir[i].models :
            \A e \in DOMAIN dir[i].models[j].entities :
              dir[i].models[j].entities[e].type = "foreign"
                => dir[i].models[j].entities[e].name
                     \notin {dir[i].models[j].name, Alias(dir[i].models[j].name)}
       /\ changedFiles \in ChangedChoices(layout)
  /\ InitRest

\* the value of a promise that has not settled
NoResult ==
  [success |-> FALSE, modelName |-> NULL, fileName |-> NULL, error |-> NULL,
   sigmaModelId |-> NULL]

\* processDbtModel has not been called for the model
NoCall == [state |-> "none", result |-> NoResult, convert |-> NULL, threw |-> FALSE]

\* the LayerProcessor before processAllLayers is called
ProcIdle ==
  /\ ppc = "idle"
  /\ dagFile = NULL
  /\ dagData = NULL
  /\ allResults = NULL
  /\ layerIdx = 0
  /\ modelIdx = 0
  /\ results = <<>>
  /\ calls = [n \in Models |-> NoCall]
  /\ started = <<>>
  /\ procLog = <<>>

\* no expression is being translated
ExprIdle ==
  /\ epc = "idle"
  /\ flag = FALSE
  /\ input = <<>>
  /\ output = NotRun
  /\ output2 = NotRun
  /\ colrefs = NotRun
  /\ caseOut = NotRun
  /\ concatOut = NotRun
  /\ splitOut = NotRun
  /\ passes = 0
  /\ nesting = 0

\* no filter is being converted and no metric pass is running
MetricIdle ==
  /\ fpc = "idle"
  /\ filterStr = <<>>
  /\ filterOut = NotRun
  /\ mpc = "idle"
  /\ sourceMetrics = <<>>
  /\ mpos = 0
  /\ convertedMetrics = <<>>
  /\ modelMetrics = <<>>
  /\ crossModelMetrics = <<>>

\* addTimeRelationships is not running
TimeIdle ==
  /\ tpc = "idle"
  /\ timeSemanticModel = NULL
  /\ timeSpineFile = NULL
  /\ targetIn = <<>>
  /\ targetData = <<>>
  /\ aggTimeDimensions = <<>>
  /\ tpos = 0
  /\ addedTimeSpines = <<>>
  /\ timeSpineGranularityMap = <<>>

InitDag ==
  /\ InitInitial \/ InitUpdate
  /\ ProcIdle
  /\ sigmaModelDir = [n \in Models |-> NULL]
  /\ testFlag = FALSE
  /\ ExprIdle
  /\ MetricIdle
  /\ TimeIdle

NextDag ==
  \/ AnalyzeDirectory
  \/ AnalyzeFiles
  \/ BuildDependencyGraph
  \/ SortStart
  \/ SortRound
  \/ SortReturn

SpecDag == InitDag /\ [][NextDag]_vars

(***************************************************************************)
(* Properties of the dependency graph and of the layering                  *)
(***************************************************************************)
\* the number of places a model holds in the layers
Occurrences(n) ==
  Cardinality({ij \in {<<i, j>> : i \in DOMAIN layers, j \in 1..Len(dependencies)} :
                 /\ ij[2] \in DOMAIN layers[ij[1]].models
                 /\ layers[ij[1]].models[ij[2]].name = n})

EveryModelInOneLayer ==
  /\ \A n \in MapKeys(dependencies) : Occurrences(n) = 1
  /\ \A i \in DOMAIN layers : LayerNames(layers[i]) \subseteq MapKeys(dependencies)

\* the layer index of a placed model
LayerOf(n) == layers[CHOOSE i \in DOMAIN layers : n \in LayerNames(layers[i])].layer

\* the edges of the dependency map between models of the map
MapEdges(deps) ==
  {e \in MapKeys(deps) \X MapKeys(deps) : Contains(MapGet(deps, e[1]).dependsOn, e[2])}

\* the edges "M has a foreign entity that the index assigns to model N"
OwnerEdges(ms) ==
  {e \in MapKeys(ms) \X MapKeys(ms) :
     \E i \in DOMAIN MapGet(ms, e[1]).foreignEntities :
       MapGet(ms, e[1]).foreignEntities[i].semanticModelName = e[2]}

RECURSIVE ReachFrom(_, _)
ReachFrom(E, S) ==
  LET T == S \cup {e[2] : e \in {x \in E : x[1] \in S}}
  IN  IF T = S THEN S ELSE ReachFrom(E, T)

\* the nodes that lie on a cycle of the edge set E
CycleNodes(E) == {n \in {e[1] : e \in E} : n \in ReachFrom(E, {e[2] : e \in {x \in E : x[1] = n}})}

Acyclic(E) == CycleNodes(E) = {}

\* every foreign entity of the corpus names a key that the model of the same name
\* declares: no unresolved name and no key whose name differs from its model's
CleanCorpus ==
  \A i \in DOMAIN dir : \A j \in DOMAIN dir[i].models :
    \A k \in DOMAIN dir[i].models[j].entities :
      LET e == dir[i].models[j].entities[k]
      IN  e.type = "foreign"
            => /\ e.name \in DOMAIN entityToFileMap
               /\ entityToFileMap[e.name].semanticModelName = e.name

\* every foreign entity of the models in scope resolves in the entity index
AllResolved ==
  \A i \in DOMAIN models : \A j \in DOMAIN models[i].foreignEntities :
    models[i].foreignEntities[j].semanticModelName # NULL

\* C1: for every acyclic dependency map, sort places every model in exactly one
\* layer, a model's layer index is strictly greater than the layer index of every
\* model in its dependsOn, and layer 1 holds exactly the models with empty dependsOn
\* (stated here for the maps built from a clean corpus only).
C1_LayersRespectDependsOn ==
  (pc = "sorted" /\ CleanCorpus /\ Acyclic(MapEdges(dependencies)))
    => /\ EveryModelInOneLayer
       /\ \A e \in MapEdges(dependencies) : LayerOf(e[1]) > LayerOf(e[2])
       /\ \A n \in MapKeys(dependencies) :
            LayerOf(n) = 1 <=> MapGet(dependencies, n).dependsOn = <<>>

\* C2: a model M with a foreign entity that another in-scope model N declares as
\* primary or unique is placed in a strictly later layer than N, also when the
\* entity's name differs from N's name (stated for runs in which every foreign
\* entity resolves and the owner edges are acyclic, where such a layering exists).
C2_OwnerBeforeReferrer ==
  (pc = "sorted" /\ AllResolved /\ Acyclic(OwnerEdges(models)))
    => \A e \in OwnerEdges(models) : e[1] # e[2] => LayerOf(e[2]) < LayerOf(e[1])

\* C3: for a dependency map with a cycle, sort terminates (every pass of the while
\* loop places at least one model, so there are at most as many passes as models),
\* every model ends up in exactly one layer, and all members of every cycle are
\* together in the last layer produced.
C3_CycleInLastLayer ==
  /\ pc = "sorting"
       => /\ processed \subseteq MapKeys(dependencies)
          /\ currentLayer - 2 <= Cardinality(processed)
  /\ (pc = "sorted" /\ ~Acyclic(MapEdges(dependencies)))
       => /\ EveryModelInOneLayer
          /\ CycleNodes(MapEdges(dependencies)) \subseteq LayerNames(layers[Len(layers)])

C3_Witness ==
  /\ pc = "sorted"
  /\ ~Acyclic(MapEdges(dependencies))
  /\ Len(layers) >= 2
  /\ Cardinality(CycleNodes(MapEdges(dependencies))) >= 2
  /\ \E i \in DOMAIN warnings : warnings[i].kind = "circular"

\* C4: after buildDependencyGraph every name in a model's dependsOn resolves in
\* the entity index to a primary/unique entity of another model; unresolved
\* foreign entities leave no dependency edge.
C4_DependsOnResolved ==
  pc \in {"graph", "sorting", "sorted"}
    => \A i \in DOMAIN dependencies : \A j \in DOMAIN dependencies[i].dependsOn :
         /\ dependencies[i].dependsOn[j] \in DOMAIN entityToFileMap
         /\ entityToFileMap[dependencies[i].dependsOn[j]].semanticModelName
              # dependencies[i].name

\* the models defined in the changed files
ChangedModels ==
  UNION {{dir[i].models[j].name : j \in DOMAIN dir[i].models} :
           i \in {k \in DOMAIN dir : Contains(changedFiles, dir[k].file)}}

\* the edges "N is a dependent of M" of a dependency graph
DependentEdges(deps) ==
  {e \in MapKeys(deps) \X MapKeys(deps) : Contains(MapGet(deps, e[1]).dependents, e[2])}

\* C5: in an update run analyzeFiles returns exactly the models of the changed
\* files plus their transitive dependents in the full dependency graph.
C5_ChangedPlusDependents ==
  (pc = "analyzed" /\ mode = "update")
    => MapKeys(models) = ReachFrom(DependentEdges(dependencies), ChangedModels)

(***************************************************************************)
(* LayerProcessor: processAllLayers, processLayer, processDbtModel         *)
(***************************************************************************)
\* exportDAG: the object buildDAG returns, written to the DAG file
DagResults(deps, lays, proc) ==
  [layers  |-> lays,
   summary |-> [totalModels |-> Len(deps), processedModels |-> Cardinality(proc),
                totalLayers |-> Len(lays)]]

\* processDbtModel: fs.existsSync(sourceFilePath)
SourceFileExists(d, fileName) == \E i \in DOMAIN d : d[i].file = fileName

\* getExistingDataModelId: the dataModelId of the model's file in the sigma_model folder
getExistingDataModelId(sigmaDir, name) == sigmaDir[name]

\* convertSemantics, up to the table element of the target data: the semantic
\* model is looked up by name, a missing primary entity is warned about, and the
\* element is then built from primaryEntity.name
convertSemantics(d, fileName, modelName) ==
  LET sms  == SelectSeq(d[FileIndex(d, fileName)].models, LAMBDA sm : sm.name = modelName)
      prim == SelectSeq(sms[1].entities, LAMBDA e : e.type = "primary")
  IN  IF sms = <<>>
        THEN [threw |-> TRUE, error |-> "Semantic model not found", warnings |-> <<>>,
              data |-> NULL]
      ELSE IF prim = <<>>
        THEN [threw |-> TRUE, error |-> "TypeError: reading 'name' of undefined",
              warnings |-> <<[kind |-> "noPrimary", model |-> modelName]>>,
              data |-> NULL]
      ELSE [threw |-> FALSE, error |-> NULL, warnings |-> <<>>,
            data |-> [name |-> modelName, element |-> prim[1].name]]

\* a result that reports a failed model as a success
CaughtAsSuccess(model, error) ==
  [success |-> TRUE, modelName |-> model.name, fileName |-> model.fileName,
   error |-> NULL, sigmaModelId |-> NULL]

\* processDbtModel: the object returned from the catch block
Caught(model, error) ==
  [success |-> FALSE, modelName |-> model.name, fileName |-> model.fileName,
   error |-> error, sigmaModelId |-> NULL]

\* processDbtModel: the object returned at the end of the try block
Succeeded(model, id) ==
  [success |-> TRUE, modelName |-> model.name, fileName |-> model.fileName,
   error |-> NULL, sigmaModelId |-> id]

\* the id the Sigma API (or uuidv4) hands out for a new data model
NewId(name) == CASE name = "a" -> "id-a" [] name = "b" -> "id-b" [] OTHER -> "id-c"

\* the id a file of the sigma_model folder holds before the run
StoredId(name) == CASE name = "a" -> "stored-a" [] name = "b" -> "stored-b" [] OTHER -> "stored-c"

\* updateDataModelInSigma: the id of the data model that was updated
updateDataModelInSigma(existingDataModelId) == existingDataModelId

\* a processDbtModel that creates a data model whatever the sigma_model folder holds
ProcessDbtModelAlwaysCreate(model, d, md, sigmaDir, test) ==
  IF ~SourceFileExists(d, model.fileName)
    THEN [state |-> "settled", result |-> Caught(model, "Source file not found"),
          convert |-> NULL, threw |-> TRUE]
  ELSE IF convertSemantics(d, model.fileName, model.name).threw
    THEN [state |-> "settled",
          result |-> Caught(model, convertSemantics(d, model.fileName, model.name).error),
          convert |-> "threw", threw |-> TRUE]
  ELSE [state |-> IF test THEN "awaitDummy" ELSE "awaitCreate",
        result |-> NoResult, convert |-> "returned", threw |-> FALSE]

\* processDbtModel from its call to its first await (or to its return)
ProcessDbtModelSync(model, d, md, sigmaDir, test) ==
  IF ~SourceFileExists(d, model.fileName)
    THEN [state |-> "settled", result |-> Caught(model, "Source file not found"),
          convert |-> NULL, threw |-> TRUE]
  ELSE
    LET existing == IF md = "update" THEN getExistingDataModelId(sigmaDir, model.name)
                                     ELSE NULL
        conv     == convertSemantics(d, model.fileName, model.name)
    IN  IF conv.threw
          THEN [state |-> "settled", result |-> Caught(model, conv.error),
                convert |-> "threw", threw |-> TRUE]
        ELSE IF md = "update" /\ existing # NULL
          THEN IF test
                 THEN [state |-> "settled", result |-> Succeeded(model, existing),
                       convert |-> "returned", threw |-> FALSE]
                 ELSE [state |-> "awaitUpdate", result |-> NoResult,
                       convert |-> "returned", threw |-> FALSE]
        ELSE [state |-> IF test THEN "awaitDummy" ELSE "awaitCreate",
              result |-> NoResult, convert |-> "returned", threw |-> FALSE]

\* the console.warn lines of convertSemantics during the call
ProcessDbtModelWarnings(model, d) ==
  IF SourceFileExists(d, model.fileName)
    THEN convertSemantics(d, model.fileName, model.name).warnings
    ELSE <<>>

\* a processLayer that does not wait for processDbtModel's promise
NoAwait(call) == TRUE

\* processLayer: `await this.processDbtModel(...)` resumes once the promise settled
AwaitReady(call) == call.state = "settled"

CountSuccessful(rs) == Len(SelectSeq(rs, LAMBDA r : r.success))

CountFailed(rs) == Len(SelectSeq(rs, LAMBDA r : ~r.success))

\* the model the for loop of processLayer is at
CurrentModel == dagData.layers[layerIdx].models[modelIdx]

\* main: exportDAG(dagResults, config.dagFile)
ExportDAG ==
  /\ pc = "sorted"
  /\ ppc = "idle"
  /\ dagFile' = DagResults(dependencies, layers, processed)
  /\ pc' = "exported"
  /\ UNCHANGED <<dir, mode, changedFiles, entityToFileMap, models, dependencies, layers,
                 processed, previousLayerModels, currentLayer, warnings>>
  /\ UNCHANGED <<sigmaModelDir, testFlag, ppc, dagData, allResults, layerIdx, modelIdx,
                 results, calls, started, procLog>>
  /\ UNCHANGED <<exprVars, metricVars, timeVars>>

\* processAllLayers: loadDAG and the initial allResults
ProcessAllLayersCall ==
  /\ pc = "exported"
  /\ ppc = "idle"
  /\ dagData' = dagFile
  /\ allResults' =
       [layers  |-> <<>>,
        summary |-> [totalModels |-> dagFile.summary.totalModels, processedModels |-> 0,
                     successfulModels |-> 0, failedModels |-> 0,
                     totalLayers |-> dagFile.summary.totalLayers]]
  /\ layerIdx' = 1
  /\ ppc' = "layers"
  /\ UNCHANGED <<dagVars, exprVars, metricVars, timeVars>>
  /\ UNCHANGED <<dagFile, sigmaModelDir, testFlag, modelIdx, results, calls, started,
                 procLog>>

\* processAllLayers: the for loop calls processLayer(layer.models, layer.layer)
ProcessLayerCall ==
  /\ ppc = "layers"
  /\ layerIdx <= Len(dagData.layers)
  /\ results' = <<>>
  /\ modelIdx' = 1
  /\ ppc' = "models"
  /\ UNCHANGED <<dagVars, exprVars, metricVars, timeVars>>
  /\ UNCHANGED <<dagFile, sigmaModelDir, testFlag, dagData, allResults, layerIdx, calls,
                 started, procLog>>

\* processLayer: the for loop calls processDbtModel(model, layerNumber), which runs
\* to its first await
ProcessDbtModelCall ==
  /\ ppc = "models"
  /\ modelIdx <= Len(dagData.layers[layerIdx].models)
  /\ calls' = [calls EXCEPT ![CurrentModel.name] =
                 ProcessDbtModelSync(CurrentModel, dir, mode, sigmaModelDir, testFlag)]
  \* TEST_FLAG with an existing model: the file is rewritten with the same dataModelId
  /\ sigmaModelDir' = sigmaModelDir
  /\ started' = Append(started, CurrentModel.name)
  /\ procLog' = procLog \o ProcessDbtModelWarnings(CurrentModel, dir)
  /\ ppc' = "await"
  /\ UNCHANGED <<dagVars, exprVars, metricVars, timeVars>>
  /\ UNCHANGED <<dagFile, testFlag, dagData, allResults, layerIdx, modelIdx, results>>

\* the models of the loaded DAG, in layer order
DagModels(dag) == Flatten(MapSeq(LAMBDA l : l.models, dag.layers))

DagModel(dag, n) ==
  DagModels(dag)[CHOOSE i \in DOMAIN DagModels(dag) : DagModels(dag)[i].name = n]

\* the promise of createDataModelInSigma / updateDataModelInSigma settles
SigmaWriteSettles ==
  /\ ppc \in {"layers", "models", "await"}
  /\ \E n \in Models, ok \in BOOLEAN :
       /\ calls[n].state \in {"awaitCreate", "awaitUpdate"}
       /\ calls' = [calls EXCEPT ![n] =
            IF ok THEN [@ EXCEPT !.state = "awaitGet"]
                  ELSE [@ EXCEPT !.state = "settled", !.threw = TRUE,
                                 !.result = Caught(DagModel(dagData, n), "Sigma API error")]]
  /\ UNCHANGED <<dagVars, exprVars, metricVars, timeVars>>
  /\ UNCHANGED <<dagFile, sigmaModelDir, testFlag, ppc, dagData, allResults, layerIdx,
                 modelIdx, results, started, procLog>>

\* the promise of getDataModelFromSigma settles; on success the spec is saved into
\* the sigma_model folder and processDbtModel returns
SigmaGetSettles ==
  /\ ppc \in {"layers", "models", "await"}
  /\ \E n \in Models, ok \in BOOLEAN :
       LET id == IF mode = "update" /\ sigmaModelDir[n] # NULL
                   THEN updateDataModelInSigma(sigmaModelDir[n])
                   ELSE NewId(n)
       IN  /\ calls[n].state = "awaitGet"
           /\ calls' = [calls EXCEPT ![n] =
                IF ok THEN [@ EXCEPT !.state = "settled",
                                     !.result = Succeeded(DagModel(dagData, n), id)]
                      ELSE [@ EXCEPT !.state = "settled", !.threw = TRUE,
                                     !.result = Caught(DagModel(dagData, n), "Sigma API error")]]
           /\ sigmaModelDir' = IF ok THEN [sigmaModelDir EXCEPT ![n] = id] ELSE sigmaModelDir
  /\ UNCHANGED <<dagVars, exprVars, metricVars, timeVars>>
  /\ UNCHANGED <<dagFile, testFlag, ppc, dagData, allResults, layerIdx, modelIdx, results,
                 started, procLog>>

\* TEST_FLAG: the timer of createDummySigmaDataModel fires, the converted file is
\* copied into the sigma_model folder and processDbtModel returns
DummyCreateSettles ==
  /\ ppc \in {"layers", "models", "await"}
  /\ \E n \in Models :
       /\ calls[n].state = "awaitDummy"
       /\ calls' = [calls EXCEPT ![n] =
            [@ EXCEPT !.state = "settled",
                      !.result = Succeeded(DagModel(dagData, n), NewId(n))]]
       /\ sigmaModelDir' = [sigmaModelDir EXCEPT ![n] = NewId(n)]
  /\ UNCHANGED <<dagVars, exprVars, metricVars, timeVars>>
  /\ UNCHANGED <<dagFile, testFlag, ppc, dagData, allResults, layerIdx, modelIdx, results,
                 started, procLog>>

\* processLayer: the await resumes and results.push(result)
ProcessLayerResume ==
  /\ ppc = "await"
  /\ AwaitReady(calls[CurrentModel.name])
  /\ results' = Append(results, calls[CurrentModel.name].result)
  /\ modelIdx' = modelIdx + 1
  /\ ppc' = "models"
  /\ UNCHANGED <<dagVars, exprVars, metricVars, timeVars>>
  /\ UNCHANGED <<dagFile, sigmaModelDir, testFlag, dagData, allResults, layerIdx, calls,
                 started, procLog>>

\* processLayer returns; processAllLayers pushes the layer and updates the summary
ProcessLayerReturn ==
  /\ ppc = "models"
  /\ ~(modelIdx <= Len(dagData.layers[layerIdx].models))
  /\ allResults' =
       [layers  |-> Append(allResults.layers,
                           [layer |-> dagData.layers[layerIdx].layer, results |-> results]),
        summary |-> [allResults.summary EXCEPT
                       !.processedModels  = @ + Len(results),
                       !.successfulModels = @ + CountSuccessful(results),
                       !.failedModels     = @ + CountFailed(results)]]
  /\ layerIdx' = layerIdx + 1
  /\ ppc' = "layers"
  /\ UNCHANGED <<dagVars, exprVars, metricVars, timeVars>>
  /\ UNCHANGED <<dagFile, sigmaModelDir, testFlag, dagData, modelIdx, results, calls,
                 started, procLog>>

\* processAllLayers: the for loop over the layers ends and allResults is returned
ProcessAllLayersReturn ==
  /\ ppc = "layers"
  /\ ~(layerIdx <= Len(dagData.layers))
  /\ ppc' = "done"
  /\ UNCHANGED <<dagVars, exprVars, metricVars, timeVars>>
  /\ UNCHANGED <<dagFile, sigmaModelDir, testFlag, dagData, allResults, layerIdx, modelIdx,
                 results, calls, started, procLog>>

\* dependency patterns of the processed corpora: none, a chain, a fan
ProcRefs ==
  { [m \in Models |-> {}],
    [m \in Models |-> CASE m = "b" -> {"a"} [] m = "c" -> {"b"} [] OTHER -> {}],
    [m \in Models |-> CASE m = "b" -> {"a"} [] m = "c" -> {"a"} [] OTHER -> {}] }

\* the sigma_model folder a run may start from
SigmaDirs(md) ==
  IF md = "initial"
    THEN {[n \in Models |-> NULL]}
    ELSE {[n \in Models |-> NULL], [n \in Models |-> StoredId(n)],
          [n \in Models |-> IF n = "a" THEN StoredId(n) ELSE NULL]}

InitProc ==
  /\ mode \in {"initial", "update"}
  /\ dir \in {MakeDir(SingleLayout, k, r) : k \in [Models -> {"own", "none"}], r \in ProcRefs}
  /\ changedFiles \in IF mode = "initial" THEN {<<>>}
                                          ELSE {<<"f1">>, <<"f1", "f2", "f3">>}
  /\ InitRest
  /\ ProcIdle
  /\ sigmaModelDir \in SigmaDirs(mode)
  /\ testFlag \in BOOLEAN
  /\ ExprIdle
  /\ MetricIdle
  /\ TimeIdle

NextProc ==
  \/ AnalyzeDirectory
  \/ AnalyzeFiles
  \/ BuildDependencyGraph
  \/ SortStart
  \/ SortRound
  \/ SortReturn
  \/ ExportDAG
  \/ ProcessAllLayersCall
  \/ ProcessLayerCall
  \/ ProcessDbtModelCall
  \/ SigmaWriteSettles
  \/ SigmaGetSettles
  \/ DummyCreateSettles
  \/ ProcessLayerResume
  \/ ProcessLayerReturn
  \/ ProcessAllLayersReturn

SpecProc == InitProc /\ [][NextProc]_vars

(***************************************************************************)
(* Properties of the processing run                                        *)
(***************************************************************************)
\* the model names of the loaded DAG, layer by layer
DagOrder == MapSeq(LAMBDA m : m.name, DagModels(dagData))

IsPrefix(s, t) == Len(s) <= Len(t) /\ \A i \in DOMAIN s : s[i] = t[i]

\* the models whose processDbtModel call has begun and has not finished
InFlight == {n \in Models : calls[n].state \notin {"none", "settled"}}

\* C6: processAllLayers processes the models in DAG order, layer by layer and model
\* by model: a model's processing begins only after every earlier model of the DAG
\* has finished, and no two models are ever in flight at once.
C6_OneModelAtATime ==
  ppc # "idle"
    => /\ Cardinality(InFlight) <= 1
       /\ IsPrefix(started, DagOrder)
       /\ \A i \in 1..(Len(started) - 1) : calls[started[i]].state = "settled"

C6_Witness ==
  /\ ppc = "await"
  /\ Len(dagData.layers) >= 2
  /\ Len(started) = 3
  /\ InFlight = {started[3]}
  /\ \E i \in 1..2 : calls[started[i]].threw

\* the results recorded so far, in the order they were pushed
Recorded ==
  Flatten(MapSeq(LAMBDA l : l.results, allResults.layers))
    \o (IF ppc \in {"models", "await"} THEN results ELSE <<>>)

C7_State ==
  ppc # "idle"
    => /\ IsPrefix(MapSeq(LAMBDA r : r.modelName, Recorded), DagOrder)
       /\ \A i \in DOMAIN Recorded :
            /\ Recorded[i].success <=> ~calls[Recorded[i].modelName].threw
            /\ ~Recorded[i].success => Recorded[i].error # NULL
       /\ ppc = "done"
            => /\ MapSeq(LAMBDA r : r.modelName, Recorded) = DagOrder
               /\ allResults.summary.processedModels = Len(DagOrder)
               /\ allResults.summary.processedModels =
                    allResults.summary.successfulModels + allResults.summary.failedModels
               /\ allResults.summary.failedModels =
                    Cardinality({n \in Models : calls[n].threw})

C7_Intact == ppc # "idle" => IsPrefix(Recorded, Recorded')

\* C7: for any pattern of per-model failures every model of the DAG is processed
\* exactly once; a failing model yields a result with success = FALSE, its name and
\* an error, later models and layers are still processed, recorded results are never
\* changed, and at the end processedModels = successfulModels + failedModels = the
\* number of models in the DAG.
C7_EveryModelProcessedOnce == [](C7_State) /\ [][C7_Intact]_vars

C7_Witness ==
  /\ ppc = "done"
  /\ Len(allResults.layers) >= 2
  /\ Len(Recorded) = 3
  /\ ~Recorded[1].success
  /\ Recorded[3].success
  /\ allResults.summary.failedModels >= 1
  /\ allResults.summary.successfulModels >= 1

\* the semantic model of that name declares no primary entity
NoPrimaryEntity(n) ==
  \E i \in DOMAIN dir : \E j \in DOMAIN dir[i].models :
    /\ dir[i].models[j].name = n
    /\ \A e \in DOMAIN dir[i].models[j].entities :
         dir[i].models[j].entities[e].type # "primary"

\* C8: a semantic model without a primary entity is still translated:
\* convertSemantics logs a warning and returns the translated model instead of
\* raising an error.
C8_NoPrimaryStillTranslated ==
  \A n \in Models :
    (calls[n].convert # NULL /\ NoPrimaryEntity(n))
      => /\ calls[n].convert = "returned"
         /\ Contains(procLog, [kind |-> "noPrimary", model |-> n])

(***************************************************************************)
(* Expression translation.  A string is a sequence of one-character        *)
(* strings; positions are 0-based as in the JavaScript source.             *)
(***************************************************************************)
\* the value null of an expression
ExprNull == <<NULL>>

Min(a, b) == IF a < b THEN a ELSE b

Max(a, b) == IF a > b THEN a ELSE b

Clamp(x, n) == Max(0, Min(x, n))

\* String.prototype.substring(a, b): arguments are clamped and swapped if a > b
Between(s, from, to) == SubSeq(s, Min(from, to) + 1, Max(from, to))

Substring(s, a, b) == Between(s, Clamp(a, Len(s)), Clamp(b, Len(s)))

SubstringFrom(s, a) == Substring(s, a, Len(s))

CharAt(s, i) == s[i + 1]

StartsWithAt(s, pat, i) ==
  i >= 0 /\ i + Len(pat) <= Len(s) /\ SubSeq(s, i + 1, i + Len(pat)) = pat

\* the least position of a set, d if the set is empty
Least(S, d) == IF S = {} THEN d ELSE CHOOSE i \in S : \A j \in S : i <= j

\* the greatest position of a set, d if the set is empty
Greatest(S, d) == IF S = {} THEN d ELSE CHOOSE i \in S : \A j \in S : i >= j

\* String.prototype.indexOf(pat, from)
IndexOf(s, pat, from) == Least({i \in Max(from, 0)..Len(s) : StartsWithAt(s, pat, i)}, -1)

\* String.prototype.lastIndexOf(pat)
LastIndexOf(s, pat) == Greatest({i \in 0..Len(s) : StartsWithAt(s, pat, i)}, -1)

\* the number of occurrences of a character
CountChar(s, c) == Cardinality({i \in DOMAIN s : s[i] = c})

UpperToLower ==
  ("A" :> "a") @@ ("B" :> "b") @@ ("C" :> "c") @@ ("D" :> "d") @@ ("E" :> "e") @@ ("F" :> "f") @@ ("G" :> "g")
  @@ ("H" :> "h") @@ ("I" :> "i") @@ ("J" :> "j") @@ ("K" :> "k") @@ ("L" :> "l") @@ ("M" :> "m") @@ ("N" :> "n")
  @@ ("O" :> "o") @@ ("P" :> "p") @@ ("Q" :> "q") @@ ("R" :> "r") @@ ("S" :> "s") @@ ("T" :> "t") @@ ("U" :> "u")
  @@ ("V" :> "v") @@ ("W" :> "w") @@ ("X" :> "x") @@ ("Y" :> "y") @@ ("Z" :> "z")

\* the character a table maps c to, c itself when the table has no entry for it
Mapped(table, c) == IF c \in DOMAIN table THEN table[c] ELSE c

LowerChar(c) == Mapped(UpperToLower, c)

\* String.prototype.toLowerCase
ToLowerCase(s) == MapSeq(LowerChar, s)

LowerLetters == Range(UpperToLower)

\* the regular expression class [a-zA-Z]
Letters == LowerLetters \cup DOMAIN UpperToLower

Digits == {"0", "1", "2", "3", "4", "5", "6", "7", "8", "9"}

\* the regular expression class \w
IsWordChar(c) == c \in Letters \cup Digits \cup {"_"}

\* the regular expression class [a-zA-Z_]
IsIdentFirst(c) == c \in Letters \cup {"_"}

\* the regular expression class \s
IsWhitespace(c) == c \in {" ", "\t"}

\* the first position at or after i that holds no whitespace
SkipWhitespace(s, i) ==
  IF i < Len(s) THEN Least({j \in i..(Len(s) - 1) : ~IsWhitespace(CharAt(s, j))}, Len(s))
  ELSE i

\* replace(/\s+/g, ' ')
RECURSIVE CollapseWhitespace(_)
CollapseWhitespace(s) ==
  LET w == Least({j \in 0..(Len(s) - 1) : IsWhitespace(CharAt(s, j))}, -1)
  IN  IF w = -1 THEN s
      ELSE Substring(s, 0, w) \o <<" ">>
           \o CollapseWhitespace(SubstringFrom(s, SkipWhitespace(s, w)))

TrimEnd(s) ==
  SubSeq(s, 1, Least({n \in 0..Len(s) : \A j \in (n + 1)..Len(s) : IsWhitespace(s[j])}, 0))

\* String.prototype.trim
Trim(s) == TrimEnd(SubstringFrom(s, SkipWhitespace(s, 0)))

\* replace(/\s+/g, ' ').trim()
NormalizeWhitespace(s) == Trim(CollapseWhitespace(s))

\* a value that is neither null nor the empty string
Truthy(s) == s # ExprNull /\ s # <<>>

\* Array.prototype.join: null elements are joined as empty strings
RECURSIVE Join(_, _)
Join(parts, sep) ==
  IF parts = <<>> THEN <<>>
  ELSE (IF Head(parts) = ExprNull THEN <<>> ELSE Head(parts))
         \o (IF Len(parts) > 1 THEN sep \o Join(Tail(parts), sep) ELSE <<>>)

S_case == <<"c", "a", "s", "e">>

S_end == <<"e", "n", "d">>

S_when == <<"w", "h", "e", "n">>

S_then == <<"t", "h", "e", "n">>

S_else == <<"e", "l", "s", "e">>

S_concat == <<"c", "o", "n", "c", "a", "t">>

S_split_part == <<"s", "p", "l", "i", "t", "_", "p", "a", "r", "t">>

S_if_open == <<"i", "f", "(">>

S_splitpart_open == <<"s", "p", "l", "i", "t", "p", "a", "r", "t", "(">>

S_amp == <<" ", "&", " ">>

S_null == <<"n", "u", "l", "l">>

\* convertColumnReferences: the entries of sigmaFunctions that a lower-cased
\* identifier can equal
sigmaFunctions ==
  { <<"s", "p", "l", "i", "t", "p", "a", "r", "t">>,
    <<"s", "u", "b", "s", "t", "r", "i", "n", "g">>,
    <<"s", "u", "b", "s", "t", "r">>,
    <<"c", "o", "n", "c", "a", "t">>,
    <<"c", "o", "n", "c", "a", "t", "_", "w", "s">>,
    <<"u", "p", "p", "e", "r">>,
    <<"l", "o", "w", "e", "r">>,
    <<"t", "r", "i", "m">>,
    <<"l", "t", "r", "i", "m">>,
    <<"r", "t", "r", "i", "m">>,
    <<"c", "o", "a", "l", "e", "s", "c", "e">>,
    <<"n", "u", "l", "l", "i", "f">>,
    <<"c", "a", "s", "e">>,
    <<"w", "h", "e", "n">>,
    <<"t", "h", "e", "n">>,
    <<"e", "l", "s", "e">>,
    <<"e", "n", "d">>,
    <<"i", "f">>,
    <<"a", "n", "d">>,
    <<"o", "r">>,
    <<"n", "o", "t">>,
    <<"i", "s">>,
    <<"n", "u", "l", "l">>,
    <<"d", "a", "t", "e", "_", "t", "r", "u", "n", "c">>,
    <<"d", "a", "t", "e", "_", "p", "a", "r", "t">>,
    <<"e", "x", "t", "r", "a", "c", "t">>,
    <<"t", "o", "_", "d", "a", "t", "e">>,
    <<"t", "o", "_", "t", "i", "m", "e", "s", "t", "a", "m", "p">>,
    <<"c", "a", "s", "t">>,
    <<":", ":">> }

\* the regular expression /\bcase\b/i has a match
CaseKeywordMatch(expr) ==
  \E i \in 0..(Len(expr) - 4) :
    /\ StartsWithAt(ToLowerCase(expr), S_case, i)
    /\ (i = 0 \/ ~IsWordChar(CharAt(expr, i - 1)))
    /\ (i + 4 = Len(expr) \/ ~IsWordChar(CharAt(expr, i + 4)))

\* the regular expression /name\s*\(/i matches at position i
OpensAt(s, i) == i < Len(s) /\ CharAt(s, i) = "("

CallMatchAt(s, name, i) ==
  /\ StartsWithAt(ToLowerCase(s), name, i)
  /\ OpensAt(s, SkipWhitespace(s, i + Len(name)))

\* expr.match(/name\s*\(/i): index and length of the leftmost match (index -1: none)
MatchAt(s, name, first) ==
  IF first = -1 THEN [index |-> -1, length |-> 0]
  ELSE [index |-> first, length |-> SkipWhitespace(s, first + Len(name)) + 1 - first]

CallMatch(s, name) == MatchAt(s, name, Least({i \in 0..Len(s) : CallMatchAt(s, name, i)}, -1))

\* findMatchingClosingParen: the for loop from position i at the given depth
RECURSIVE FindClosingFrom(_, _, _)
FindClosingFrom(expr, i, depth) ==
  IF ~(i < Len(expr)) THEN -1
  ELSE IF CharAt(expr, i) = "(" THEN FindClosingFrom(expr, i + 1, depth + 1)
  ELSE IF CharAt(expr, i) = ")"
    THEN IF depth = 0 THEN i ELSE FindClosingFrom(expr, i + 1, depth - 1)
  ELSE FindClosingFrom(expr, i + 1, depth)

findMatchingClosingParen(expr, startPos) == FindClosingFrom(expr, startPos, 0)

\* parseFunctionArguments: the for loop from position i
\* st = [args, currentArg, inString, stringChar, parenDepth]
RECURSIVE ParseArgsFrom(_, _, _)
ParseArgsFrom(argsStr, i, st) ==
  IF ~(i < Len(argsStr)) THEN st
  ELSE
    LET char == CharAt(argsStr, i)
        plus == [st EXCEPT !.currentArg = st.currentArg \o <<char>>]
    IN  IF ~st.inString /\ (char = "\"" \/ char = "'")
          THEN ParseArgsFrom(argsStr, i + 1, [plus EXCEPT !.inString = TRUE, !.stringChar = char])
        ELSE IF st.inString /\ char = st.stringChar
          THEN ParseArgsFrom(argsStr, i + 1, [plus EXCEPT !.inString = FALSE, !.stringChar = NULL])
        ELSE IF ~st.inString /\ char = "("
          THEN ParseArgsFrom(argsStr, i + 1, [plus EXCEPT !.parenDepth = st.parenDepth + 1])
        ELSE IF ~st.inString /\ char = ")"
          THEN ParseArgsFrom(argsStr, i + 1, [plus EXCEPT !.parenDepth = st.parenDepth - 1])
        ELSE IF ~st.inString /\ st.parenDepth = 0 /\ char = ","
          THEN ParseArgsFrom(argsStr, i + 1,
                 [st EXCEPT !.args = Append(st.args, Trim(st.currentArg)), !.currentArg = <<>>])
        ELSE ParseArgsFrom(argsStr, i + 1, plus)

\* parseFunctionArguments, after the loop: the last argument is pushed unless
\* it is empty
PushLastArg(args, lastArg) == IF lastArg # <<>> THEN Append(args, lastArg) ELSE args

LastArgOf(st) == PushLastArg(st.args, Trim(st.currentArg))

parseFunctionArguments(argsStr) ==
  LastArgOf(ParseArgsFrom(argsStr, 0,
              [args |-> <<>>, currentArg |-> <<>>, inString |-> FALSE, stringChar |-> NULL,
               parenDepth |-> 0]))

\* name.replace(/_/g, ' ')
convertToUserFriendlyName(name) == MapSeq(LAMBDA c : IF c = "_" THEN " " ELSE c, name)

\* the regular expression \b([a-zA-Z_][a-zA-Z0-9_]*)\b matches starting at position i
IsIdentStart(s, i) ==
  /\ i < Len(s)
  /\ IsIdentFirst(CharAt(s, i))
  /\ (i = 0 \/ ~IsWordChar(CharAt(s, i - 1)))

\* the end of the run of word characters that starts at position i
WordEnd(s, i) ==
  IF i < Len(s) THEN Least({j \in i..(Len(s) - 1) : ~IsWordChar(CharAt(s, j))}, Len(s))
  ELSE i

\* convertColumnReferences, step 4b: an odd number of quotes before the identifier
InsideQuotes(before) == CountChar(before, "'") % 2 = 1 \/ CountChar(before, "\"") % 2 = 1

\* a bracket check that never finds an identifier inside brackets
NeverInsideBrackets(before, after) == FALSE

\* convertColumnReferences, step 4c: a '[' somewhere before and a ']' somewhere after
InsideBrackets(before, after) ==
  LastIndexOf(before, <<"[">>) # -1 /\ IndexOf(after, <<"]">>, 0) # -1

\* convertColumnReferences, steps 4a-4c: the identifier at [startPos, endPos) is skipped
SkipIdentifier(converted, startPos, endPos) ==
  \/ Substring(ToLowerCase(converted), startPos, endPos) \in sigmaFunctions
  \/ InsideQuotes(Substring(converted, 0, startPos))
  \/ InsideBrackets(Substring(converted, 0, startPos), SubstringFrom(converted, endPos))

\* convertColumnReferences, steps 4-5: the text from position i on with every
\* replacement applied
RECURSIVE ReplaceFrom(_, _, _)

\* step 5: the identifier in brackets
Bracketed(identifier, friendly) ==
  <<"[">> \o (IF friendly THEN convertToUserFriendlyName(identifier) ELSE identifier) \o <<"]">>

\* steps 4-5 for the identifier at [m, endPos)
ReplaceIdentifier(converted, i, m, endPos, friendly) ==
  Substring(converted, i, m)
    \o (IF SkipIdentifier(converted, m, endPos)
          THEN Substring(converted, m, endPos)
          ELSE Bracketed(Substring(converted, m, endPos), friendly))
    \o ReplaceFrom(converted, endPos, friendly)

\* m: the start of the next identifier at or after i, -1 if there is none
ReplaceMatch(converted, i, m, friendly) ==
  IF m = -1 THEN SubstringFrom(converted, i)
  ELSE ReplaceIdentifier(converted, i, m, WordEnd(converted, m), friendly)

ReplaceFrom(converted, i, friendly) ==
  ReplaceMatch(converted, i,
               Least({j \in i..(Len(converted) - 1) : IsIdentStart(converted, j)}, -1),
               friendly)

convertColumnReferences(expr, friendly) ==
  ReplaceFrom(NormalizeWhitespace(expr), 0, friendly)

\* convertCase, step 8c: the for loop that looks for the matching THEN
RECURSIVE FindThen(_, _, _, _, _)
FindThen(body, i, depth, inString, stringChar) ==
  IF ~(i < Len(body)) THEN -1
  ELSE
    LET char == CharAt(body, i)
    IN  IF ~inString /\ (char = "\"" \/ char = "'")
          THEN FindThen(body, i + 1, depth, TRUE, char)
        ELSE IF inString /\ char = stringChar
          THEN FindThen(body, i + 1, depth, FALSE, NULL)
        ELSE IF ~inString
          THEN IF char = "(" THEN FindThen(body, i + 1, depth + 1, inString, stringChar)
               ELSE IF char = ")" THEN FindThen(body, i + 1, depth - 1, inString, stringChar)
               ELSE IF depth = 0 /\ StartsWithAt(body, S_then, i) THEN i
               ELSE FindThen(body, i + 1, depth, inString, stringChar)
        ELSE FindThen(body, i + 1, depth, inString, stringChar)

\* convertCase, step 8g: the earliest of the next WHEN, ELSE and END
NextBoundary(body, thenIndex) ==
  Least({IndexOf(body, S_when, thenIndex + 4), IndexOf(body, S_else, thenIndex + 4),
         IndexOf(body, S_end, thenIndex + 4)} \ {-1},
        Len(body))

\* convertCase, step 10: conditions and results interleaved
RECURSIVE IfArgs(_, _)
IfArgs(conditions, thenResults) ==
  IF conditions = <<>> THEN <<>>
  ELSE <<Head(conditions), Head(thenResults)>> \o IfArgs(Tail(conditions), Tail(thenResults))

maxIterations == 10

RECURSIVE convertExpressionToSigma(_, _)
RECURSIVE CaseClauses(_, _, _, _, _)
RECURSIVE ConversionLoop(_, _, _)

\* convertCase, steps 8h-8j: after a clause was pushed, the ELSE result is
\* taken and the loop left, or the loop goes on at the next boundary
AfterClause(caseBody, body, elseIndex, nextBoundary, pushed, friendly) ==
  IF elseIndex # -1 /\ elseIndex = nextBoundary
    THEN [pushed EXCEPT !.elseResult =
            convertExpressionToSigma(Trim(SubstringFrom(caseBody, elseIndex + 4)), friendly)]
  ELSE CaseClauses(caseBody, body, nextBoundary, pushed, friendly)

\* convertCase, step 8: the while loop from position pos
\* acc = [conditions, results, elseResult]
\* steps 8e-8g: condition and result of the clause are converted and pushed
PushClause(caseBody, body, whenIndex, thenIndex, elseIndex, nextBoundary, acc, friendly) ==
  AfterClause(caseBody, body, elseIndex, nextBoundary,
              [acc EXCEPT
                 !.conditions =
                   Append(acc.conditions,
                          convertExpressionToSigma(
                            Trim(Substring(caseBody, whenIndex + 4, thenIndex)), friendly)),
                 !.results =
                   Append(acc.results,
                          convertExpressionToSigma(
                            Trim(Substring(caseBody, thenIndex + 4, nextBoundary)), friendly))],
              friendly)

\* step 8d: no matching THEN ends the loop
ClauseAtThen(caseBody, body, whenIndex, thenIndex, acc, friendly) ==
  IF thenIndex = -1 THEN acc
  ELSE PushClause(caseBody, body, whenIndex, thenIndex, IndexOf(body, S_else, thenIndex + 4),
                  NextBoundary(body, thenIndex), acc, friendly)

\* step 8b: no further WHEN ends the loop
ClauseAtWhen(caseBody, body, whenIndex, acc, friendly) ==
  IF whenIndex = -1 THEN acc
  ELSE ClauseAtThen(caseBody, body, whenIndex, FindThen(body, whenIndex + 4, 0, FALSE, NULL),
                    acc, friendly)

CaseClauses(caseBody, body, pos, acc, friendly) ==
  IF ~(pos < Len(body)) THEN acc
  ELSE ClauseAtWhen(caseBody, body, IndexOf(body, S_when, pos), acc, friendly)

\* convertCase, steps 9-11: the if(...) call built from the parsed clauses
IfCall(normalized, caseIndex, endIndex, parsed) ==
  IF parsed.conditions = <<>> THEN ExprNull
  ELSE Substring(normalized, 0, caseIndex)
         \o S_if_open
         \o Join(IfArgs(parsed.conditions, parsed.results)
                   \o (IF Truthy(parsed.elseResult) THEN <<parsed.elseResult>> ELSE <<>>),
                 <<",">>)
         \o <<")">>
         \o SubstringFrom(normalized, endIndex + 3)

\* convertCase, steps 2-8 on the normalized text
CaseOf(normalized, caseIndex, endIndex, caseBody, friendly) ==
  IF endIndex = -1 THEN ExprNull
  ELSE IfCall(normalized, caseIndex, endIndex,
              CaseClauses(caseBody, ToLowerCase(caseBody), 0,
                          [conditions |-> <<>>, results |-> <<>>, elseResult |-> ExprNull],
                          friendly))

CaseBody(normalized, caseIndex, endIndex) == Trim(Substring(normalized, caseIndex + 4, endIndex))

CaseAt(normalized, caseIndex, endIndex, friendly) ==
  CaseOf(normalized, caseIndex, endIndex, CaseBody(normalized, caseIndex, endIndex), friendly)

CaseIn(normalized, lower, friendly) ==
  CaseAt(normalized, IndexOf(lower, S_case, 0), LastIndexOf(lower, S_end), friendly)

CaseNormalized(normalized, friendly) == CaseIn(normalized, ToLowerCase(normalized), friendly)

convertCase(expr, friendly) ==
  IF ~CaseKeywordMatch(expr) THEN ExprNull
  ELSE CaseNormalized(NormalizeWhitespace(expr), friendly)

\* whether convertConcat keeps the argument as it is
IsQuoted(arg) ==
  \/ (StartsWithAt(arg, <<"'">>, 0) /\ arg[Len(arg)] = "'")
  \/ (StartsWithAt(arg, <<"\"">>, 0) /\ arg[Len(arg)] = "\"")

\* convertConcat: one trimmed argument converted
ConvertTrimmedArg(trimmed, friendly) ==
  IF IsQuoted(trimmed) THEN trimmed
  ELSE convertExpressionToSigma(convertColumnReferences(trimmed, friendly), friendly)

ConvertConcatArg(arg, friendly) == ConvertTrimmedArg(Trim(arg), friendly)

\* the match of a call with the positions after its opening and of its closing
\* parenthesis: match.index, startPos, endPos of convertConcat and convertSplitPart
SiteOf(expr, match) ==
  [index    |-> match.index,
   startPos |-> match.index + match.length,
   endPos   |-> IF match.index = -1 THEN -1
                ELSE findMatchingClosingParen(expr, match.index + match.length)]

CallSite(expr, name) == SiteOf(expr, CallMatch(expr, name))

ArgsAt(expr, site) == parseFunctionArguments(Substring(expr, site.startPos, site.endPos))

ConcatAt(expr, friendly, site) ==
  IF site.index = -1 THEN ExprNull
  ELSE IF site.endPos = -1 THEN ExprNull
  ELSE Substring(expr, 0, site.index)
         \o Join(MapSeq(LAMBDA arg : ConvertConcatArg(arg, friendly), ArgsAt(expr, site)), S_amp)
         \o SubstringFrom(expr, site.endPos + 1)

convertConcat(expr, friendly) == ConcatAt(expr, friendly, CallSite(expr, S_concat))

\* a template literal prints null as the text null
TemplateText(s) == IF s = ExprNull THEN S_null ELSE s

SplitPartOf(expr, friendly, site, args) ==
  IF Len(args) < 3 THEN ExprNull
  ELSE Substring(expr, 0, site.index)
         \o S_splitpart_open
         \o TemplateText(convertExpressionToSigma(
                           convertColumnReferences(Trim(args[1]), friendly), friendly))
         \o <<",">>
         \o Join(MapSeq(Trim, Tail(args)), <<",">>) \o <<")">>
         \o SubstringFrom(expr, site.endPos + 1)

SplitPartAt(expr, friendly, site) ==
  IF site.index = -1 THEN ExprNull
  ELSE IF site.endPos = -1 THEN ExprNull
  ELSE SplitPartOf(expr, friendly, site, ArgsAt(expr, site))

convertSplitPart(expr, friendly) == SplitPartAt(expr, friendly, CallSite(expr, S_split_part))

\* convertExpressionToSigma: iterations < maxIterations, and the same with the
\* ceiling one pass too high
CeilingOffByOne(iterations) == iterations < maxIterations + 1

WithinCeiling(iterations) == iterations < maxIterations

\* convertExpressionToSigma, the test of each step of a pass: the conversion
\* gave a result and the result differs from the text
Replaced(converted, result) == Truthy(result) /\ result # converted

\* one pass of the while loop: the text the pass continues with, after
\* convertCase, else after convertConcat, else after convertSplitPart;
\* ExprNull when the pass ends in break
PassAfterSplitPart(converted, splitPartResult) ==
  IF Replaced(converted, splitPartResult) THEN splitPartResult ELSE ExprNull

PassAfterConcat(converted, friendly, concatResult) ==
  IF Replaced(converted, concatResult) THEN concatResult
  ELSE PassAfterSplitPart(converted, convertSplitPart(converted, friendly))

PassAfterCase(converted, friendly, caseResult) ==
  IF Replaced(converted, caseResult) THEN caseResult
  ELSE PassAfterConcat(converted, friendly, convertConcat(converted, friendly))

NextPass(converted, friendly) ==
  PassAfterCase(converted, friendly, convertCase(converted, friendly))

\* the while loop after a pass: left on break, continued otherwise
AfterPass(converted, iterations, friendly, next) ==
  IF next = ExprNull THEN converted ELSE ConversionLoop(next, iterations + 1, friendly)

\* convertExpressionToSigma: the while loop, entered with `iterations` passes done
ConversionLoop(converted, iterations, friendly) ==
  IF ~WithinCeiling(iterations) THEN converted
  ELSE AfterPass(converted, iterations, friendly, NextPass(converted, friendly))

convertExpressionToSigma(expr, friendly) ==
  IF ~Truthy(expr) THEN ExprNull
  ELSE convertColumnReferences(
         ConversionLoop(NormalizeWhitespace(Trim(expr)), 0, friendly), friendly)

\* convertExpressionToSigma: the value of `iterations` when the while loop is left
RECURSIVE LoopIterations(_, _, _)

\* iterations++ at the head of the pass, then break or the next pass
IterationsAfterPass(iterations, friendly, next) ==
  IF next = ExprNull THEN iterations + 1 ELSE LoopIterations(next, iterations + 1, friendly)

LoopIterations(converted, iterations, friendly) ==
  IF ~WithinCeiling(iterations) THEN iterations
  ELSE IterationsAfterPass(iterations, friendly, NextPass(converted, friendly))

Iterations(expr, friendly) ==
  IF ~Truthy(expr) THEN 0
  ELSE LoopIterations(NormalizeWhitespace(Trim(expr)), 0, friendly)

\* convertCase: the texts its while loop hands to convertExpressionToSigma
RECURSIVE CaseCalls(_, _, _)

\* the texts of one clause, then the ELSE text or the clauses after it
ClauseCalls(caseBody, body, whenIndex, thenIndex, elseIndex, nextBoundary) ==
  << Trim(Substring(caseBody, whenIndex + 4, thenIndex)),
     Trim(Substring(caseBody, thenIndex + 4, nextBoundary)) >>
    \o (IF elseIndex # -1 /\ elseIndex = nextBoundary
          THEN << Trim(SubstringFrom(caseBody, elseIndex + 4)) >>
          ELSE CaseCalls(caseBody, body, nextBoundary))

CallsAtThen(caseBody, body, whenIndex, thenIndex) ==
  IF thenIndex = -1 THEN <<>>
  ELSE ClauseCalls(caseBody, body, whenIndex, thenIndex, IndexOf(body, S_else, thenIndex + 4),
                   NextBoundary(body, thenIndex))

CallsAtWhen(caseBody, body, whenIndex) ==
  IF whenIndex = -1 THEN <<>>
  ELSE CallsAtThen(caseBody, body, whenIndex, FindThen(body, whenIndex + 4, 0, FALSE, NULL))

CaseCalls(caseBody, body, pos) ==
  IF ~(pos < Len(body)) THEN <<>>
  ELSE
    CallsAtWhen(caseBody, body, IndexOf(body, S_when, pos))

CaseBodyCalls(caseBody) == CaseCalls(caseBody, ToLowerCase(caseBody), 0)

CaseCallsAt(normalized, caseIndex, endIndex) ==
  IF endIndex = -1 THEN <<>>
  ELSE CaseBodyCalls(CaseBody(normalized, caseIndex, endIndex))

CaseCallsIn(normalized, lower) ==
  CaseCallsAt(normalized, IndexOf(lower, S_case, 0), LastIndexOf(lower, S_end))

CaseCallsNormalized(normalized) == CaseCallsIn(normalized, ToLowerCase(normalized))

convertCaseCalls(expr) ==
  IF ~CaseKeywordMatch(expr) THEN <<>>
  ELSE CaseCallsNormalized(NormalizeWhitespace(expr))

\* convertConcat: the texts it hands to convertExpressionToSigma
ConcatCallsAt(expr, friendly, site) ==
  IF site.index = -1 THEN <<>>
  ELSE IF site.endPos = -1 THEN <<>>
  ELSE MapSeq(LAMBDA arg : convertColumnReferences(arg, friendly),
              SelectSeq(MapSeq(Trim, ArgsAt(expr, site)), LAMBDA arg : ~IsQuoted(arg)))

convertConcatCalls(expr, friendly) == ConcatCallsAt(expr, friendly, CallSite(expr, S_concat))

\* convertSplitPart: the text it hands to convertExpressionToSigma
SplitPartCallsOf(args, friendly) ==
  IF Len(args) < 3 THEN <<>>
  ELSE << convertColumnReferences(Trim(args[1]), friendly) >>

SplitPartCallsAt(expr, friendly, site) ==
  IF site.index = -1 THEN <<>>
  ELSE IF site.endPos = -1 THEN <<>>
  ELSE SplitPartCallsOf(ArgsAt(expr, site), friendly)

convertSplitPartCalls(expr, friendly) ==
  SplitPartCallsAt(expr, friendly, CallSite(expr, S_split_part))

\* the invocations of convertExpressionToSigma one pass of the while loop makes
CallsAfterConcat(converted, friendly, concatResult) ==
  IF Replaced(converted, concatResult) THEN <<>> ELSE convertSplitPartCalls(converted, friendly)

CallsAfterCase(converted, friendly, caseResult) ==
  IF Replaced(converted, caseResult) THEN <<>>
  ELSE convertConcatCalls(converted, friendly)
         \o CallsAfterConcat(converted, friendly, convertConcat(converted, friendly))

PassCalls(converted, friendly) ==
  convertCaseCalls(converted)
    \o CallsAfterCase(converted, friendly, convertCase(converted, friendly))

MaxOf(S) == CHOOSE x \in S : \A y \in S : y <= x

\* the number of invocations of convertExpressionToSigma on the call stack at
\* the deepest point of the invocation on expr
RECURSIVE Depth(_, _)
RECURSIVE LoopDepth(_, _, _)
\* the deepest of the invocations a pass makes and of the passes after it
DepthAfterPass(invoked, next, iterations, friendly) ==
  MaxOf({0} \cup {Depth(invoked[i], friendly) : i \in 1..Len(invoked)}
            \cup (IF next = ExprNull THEN {}
                  ELSE {LoopDepth(next, iterations + 1, friendly)}))

LoopDepth(converted, iterations, friendly) ==
  IF ~WithinCeiling(iterations) THEN 0
  ELSE DepthAfterPass(PassCalls(converted, friendly), NextPass(converted, friendly),
                      iterations, friendly)

Depth(expr, friendly) ==
  IF ~Truthy(expr) THEN 1
  ELSE 1 + LoopDepth(NormalizeWhitespace(Trim(expr)), 0, friendly)

(***************************************************************************)
(* Translating an expression                                               *)
(***************************************************************************)
\* the expressions given as examples in the comments of the translator's sources
Examples ==
  { <<"c", "o", "l", "1", " ", "+", " ", "c", "o", "l", "2", " ", "*", " ", "c", "o", "l", "3">>,
    <<"c", "o", "n", "c", "a", "t", "(", "c", "o", "l", "1", ",", " ", "c", "o", "l", "2", ")">>,
    <<"c", "o", "l", "1", " ", "=", " ", "'", "m", "y", "_", "c", "o", "l", "u", "m", "n", "'", " ", "A", "N", "D", " ", "c", "o", "l", "2", " ", "=", " ", "'", "v", "a", "l", "u", "e", "'">>,
    <<"[", "c", "o", "l", "1", "]", " ", "+", " ", "c", "o", "l", "2">>,
    <<"C", "A", "S", "E", " ", "W", "H", "E", "N", " ", "x", " ", "=", " ", "y", " ", "T", "H", "E", "N", " ", "z", " ", "E", "L", "S", "E", " ", "w", " ", "E", "N", "D">>,
    <<"C", "A", "S", "E", " ", "W", "H", "E", "N", " ", "a", " ", "<", " ", "b", " ", "T", "H", "E", "N", " ", "c", " ", "W", "H", "E", "N", " ", "d", " ", ">", " ", "e", " ", "T", "H", "E", "N", " ", "f", " ", "E", "L", "S", "E", " ", "g", " ", "E", "N", "D">>,
    <<"C", "A", "S", "E", " ", "W", "H", "E", "N", " ", "c", "o", "l", "1", " ", "=", " ", "'", "v", "a", "l", "u", "e", "'", " ", "T", "H", "E", "N", " ", "c", "o", "n", "c", "a", "t", "(", "c", "o", "l", "2", ",", " ", "c", "o", "l", "3", ")", " ", "E", "L", "S", "E", " ", "'", "d", "e", "f", "a", "u", "l", "t", "'", " ", "E", "N", "D">>,
    <<"S", "P", "L", "I", "T", "_", "P", "A", "R", "T", "(", "v", "a", "l", "u", "e", ",", " ", "'", "@", "'", ",", " ", "2", ")">>,
    <<"c", "o", "n", "c", "a", "t", "(", "s", "t", "a", "g", "e", "_", "n", "a", "m", "e", ",", " ", "'", " ", "-", " ", "'", ",", " ", "s", "t", "a", "g", "e", "_", "g", "r", "o", "u", "p", ")">>,
    <<"c", "o", "n", "c", "a", "t", "(", "c", "o", "l", "1", ",", " ", "'", "h", "e", "l", "l", "o", ",", "w", "o", "r", "l", "d", "'", ",", " ", "c", "o", "n", "c", "a", "t", "(", "c", "o", "l", "2", ",", "c", "o", "l", "3", ")", ")">>,
    <<"c", "o", "n", "c", "a", "t", "(", "c", "o", "l", "1", ",", " ", "c", "o", "n", "c", "a", "t", "(", "c", "o", "l", "2", ",", " ", "c", "o", "l", "3", ")", ",", " ", "c", "o", "l", "4", ")">>,
    <<"c", "o", "l", "1", " ", " ", " ", "+", " ", " ", "c", "o", "l", "2">>,
    <<"C", "A", "S", "E", " ", "W", "H", "E", "N", " ", "x", "=", "1", " ", "T", "H", "E", "N", " ", "C", "A", "S", "E", " ", "W", "H", "E", "N", " ", "y", "=", "2", " ", "T", "H", "E", "N", " ", "3", " ", "E", "N", "D", " ", "E", "N", "D">> }

\* the pieces the other input expressions are made of
Tokens ==
  { <<"a">>, <<"_", "_">>, <<" ">>, <<"[">>, <<"]">>, <<"'">>, <<"(">>, <<")">>, <<",">>, <<"1">>, <<"c", "o", "n", "c", "a", "t">> }

MaxTokens == 3

TokenStrings ==
  {Flatten(ts) : ts \in UNION {[1..n -> Tokens] : n \in 0..MaxTokens}}

\* CASE expressions: the text before CASE, the WHEN/THEN clauses, the ELSE
\* result (<<>> when there is none) and the text after END
CaseConditions == { <<"a", "=", "1">>, <<"b", "=", "2">> }

CaseResults == { <<"x">>, <<"'", "t", "'">>, <<"e", "n", "d", "_", "d", "a", "t", "e">> }

CaseElses == { <<>>, <<"z">> }

CasePrefixes == { <<>>, <<"p", " ", "+", " ">> }

CaseSuffixes == { <<>>, <<" ", "+", " ", "q">> }

MaxWhen == 2

CaseClauseLists ==
  UNION {[1..n -> CaseConditions \X CaseResults] : n \in 1..MaxWhen}

CaseShapes ==
  [before: CasePrefixes, clauses: CaseClauseLists, otherwise: CaseElses,
   after: CaseSuffixes]

CaseText(sh) ==
  sh.before \o <<"C", "A", "S", "E">>
    \o Flatten([i \in 1..Len(sh.clauses) |->
                  <<" ", "W", "H", "E", "N", " ">> \o sh.clauses[i][1] \o <<" ", "T", "H", "E", "N", " ">> \o sh.clauses[i][2]])
    \o (IF sh.otherwise = <<>> THEN <<>> ELSE <<" ", "E", "L", "S", "E", " ">> \o sh.otherwise)
    \o <<" ", "E", "N", "D">> \o sh.after

CaseInputs == {CaseText(sh) : sh \in CaseShapes}

\* CONCAT calls: the arguments, a column, a quoted literal or a nested call
ConcatArgs ==
  { <<"c", "o", "l", "1">>, <<"c", "o", "l", "2">>, <<"'", " ", "-", " ", "'">>, <<"'", ")", "'">>, <<"C", "O", "N", "C", "A", "T", "(", "c", "o", "l", "2", ",", " ", "c", "o", "l", "3", ")">> }

MaxConcatArgs == 3

ConcatArgLists == UNION {[1..n -> ConcatArgs] : n \in 1..MaxConcatArgs}

ConcatText(args) == <<"C", "O", "N", "C", "A", "T", "(">> \o Join(args, <<",", " ">>) \o <<")">>

ConcatInputs == {ConcatText(args) : args \in ConcatArgLists}

\* SPLIT_PART calls with one argument or more
SplitArgs == { <<"e", "m", "a", "i", "l">>, <<"'", "@", "'">>, <<"2">> }

MaxSplitArgs == 4

SplitArgLists == UNION {[1..n -> SplitArgs] : n \in 1..MaxSplitArgs}

SplitText(args) == <<"S", "P", "L", "I", "T", "_", "P", "A", "R", "T", "(">> \o Join(args, <<",", " ">>) \o <<")">>

SplitInputs == {SplitText(args) : args \in SplitArgLists}

\* more calls in a row than the loop has passes
RECURSIVE Repeat(_, _)
Repeat(s, n) == IF n = 0 THEN <<>> ELSE s \o Repeat(s, n - 1)

RepeatedCalls ==
  {<<"c", "o", "n", "c", "a", "t", "(", "a", ")">> \o Repeat(<<"c", "o", "n", "c", "a", "t", "(", ")">>, n) : n \in 0..maxIterations}

\* CASE expressions without an END keyword or without a WHEN clause
MalformedCases ==
  { <<"C", "A", "S", "E", " ", "W", "H", "E", "N", " ", "a", "=", "1", " ", "T", "H", "E", "N", " ", "x">>,
    <<"C", "A", "S", "E", " ", "W", "H", "E", "N", " ", "a", "=", "1", " ", "T", "H", "E", "N", " ", "x", " ", "E", "L", "S", "E", " ", "y">>,
    <<"C", "A", "S", "E", " ", "W", "H", "E", "N", " ", "a", "=", "1", " ", "T", "H", "E", "N", " ", "e", "n", "d", "_", "d", "a", "t", "e">>,
    <<"C", "A", "S", "E", " ", "W", "H", "E", "N", " ", "a", "=", "1", " ", "T", "H", "E", "N", " ", "'", "e", "n", "d", "'">>,
    <<"C", "A", "S", "E", " ", "E", "L", "S", "E", " ", "z", " ", "E", "N", "D">>,
    <<"C", "A", "S", "E", " ", "E", "N", "D">> }

\* expressions with bare identifiers next to bracketed references and literals
ReferenceInputs ==
  { <<"[", "a", "]", " ", "+", " ", "b", " ", "+", " ", "[", "c", "]">>,
    <<"[", "a", "]", " ", "+", " ", "'", "b", "'", " ", "+", " ", "c">>,
    <<"'", "a", "'", " ", "+", " ", "b", " ", "+", " ", "[", "c", "]">> }

Inputs == Examples \cup TokenStrings \cup CaseInputs \cup ConcatInputs
            \cup SplitInputs \cup RepeatedCalls \cup MalformedCases
            \cup ReferenceInputs

\* convertExpressionToSigma(expr)
Translate ==
  /\ epc = "input"
  /\ output' = convertExpressionToSigma(input, flag)
  /\ epc' = "translated"
  /\ UNCHANGED <<dagVars, procVars, metricVars, timeVars>>
  /\ passes' = Iterations(input, flag)
  /\ nesting' = Depth(input, flag)
  /\ UNCHANGED <<flag, input, output2, colrefs, caseOut, concatOut, splitOut>>

\* convertExpressionToSigma applied to its own result
TranslateAgain ==
  /\ epc = "translated"
  /\ output2' = convertExpressionToSigma(output, flag)
  /\ epc' = "retranslated"
  /\ UNCHANGED <<dagVars, procVars, metricVars, timeVars>>
  /\ UNCHANGED <<flag, input, output, colrefs, caseOut, concatOut, splitOut, passes, nesting>>

\* convertColumnReferences(expr)
ConvertColumnReferences ==
  /\ epc # "idle"
  /\ colrefs = NotRun
  /\ colrefs' = convertColumnReferences(input, flag)
  /\ UNCHANGED <<dagVars, procVars, metricVars, timeVars>>
  /\ UNCHANGED <<flag, input, epc, output, output2, caseOut, concatOut, splitOut, passes, nesting>>

\* convertCase(expr, convertExpressionToSigma)
ConvertCase ==
  /\ epc = "input"
  /\ caseOut' = convertCase(input, flag)
  /\ epc' = "case"
  /\ UNCHANGED <<dagVars, procVars, metricVars, timeVars>>
  /\ UNCHANGED <<flag, input, output, output2, colrefs, concatOut, splitOut, passes, nesting>>

\* convertConcat(expr)
ConvertConcat ==
  /\ epc = "input"
  /\ concatOut' = convertConcat(input, flag)
  /\ epc' = "concat"
  /\ UNCHANGED <<dagVars, procVars, metricVars, timeVars>>
  /\ UNCHANGED <<flag, input, output, output2, colrefs, caseOut, splitOut, passes, nesting>>

\* convertSplitPart(expr, convertExpressionToSigma)
ConvertSplitPart ==
  /\ epc = "input"
  /\ splitOut' = convertSplitPart(input, flag)
  /\ epc' = "split"
  /\ UNCHANGED <<dagVars, procVars, metricVars, timeVars>>
  /\ UNCHANGED <<flag, input, output, output2, colrefs, caseOut, concatOut, passes, nesting>>

\* no DAG is being built
DagIdle ==
  /\ pc = "idle"
  /\ dir = <<>>
  /\ mode = "initial"
  /\ changedFiles = <<>>
  /\ entityToFileMap = <<>>
  /\ models = <<>>
  /\ dependencies = <<>>
  /\ layers = <<>>
  /\ processed = {}
  /\ previousLayerModels = {}
  /\ currentLayer = 0
  /\ warnings = <<>>

InitExpr ==
  /\ DagIdle
  /\ ProcIdle
  /\ sigmaModelDir = [n \in Models |-> NULL]
  /\ testFlag = FALSE
  /\ epc = "input"
  /\ flag \in BOOLEAN
  /\ input \in Inputs
  /\ output = NotRun
  /\ output2 = NotRun
  /\ colrefs = NotRun
  /\ caseOut = NotRun
  /\ concatOut = NotRun
  /\ splitOut = NotRun
  /\ passes = 0
  /\ nesting = 0
  /\ MetricIdle
  /\ TimeIdle

NextExpr ==
  \/ Translate
  \/ TranslateAgain
  \/ ConvertColumnReferences
  \/ ConvertCase
  \/ ConvertConcat
  \/ ConvertSplitPart

SpecExpr == InitExpr /\ [][NextExpr]_vars

(***************************************************************************)
(* Properties of the translation                                           *)
(***************************************************************************)
\* C9: expression translation is idempotent: translating the translation of an
\* input gives the translation again.
C9_TranslateIdempotent == epc = "retranslated" => output2 = output

\* the number of places where a string holds two opening brackets in a row
DoubleBrackets(s) == Cardinality({i \in 0..Len(s) : StartsWithAt(s, <<"[", "[">>, i)})

\* every opening bracket of the string has a closing bracket somewhere after it
BracketsClosed(s) == LastIndexOf(s, <<"[">>) < LastIndexOf(s, <<"]">>) \/ LastIndexOf(s, <<"[">>) = -1

\* one identifier in brackets, like [col]
IsBracketedRef(s) ==
  /\ Len(s) >= 3
  /\ s[1] = "["
  /\ s[Len(s)] = "]"
  /\ IsIdentStart(s, 1)
  /\ WordEnd(s, 1) = Len(s) - 1

\* C10 as stated: [col] is translated to [col], and no output of
\* convertColumnReferences holds a "[[" that its input did not hold.
C10_NoNewDoubleBracket ==
  colrefs # NotRun
    => /\ IsBracketedRef(input) => colrefs = input
       /\ DoubleBrackets(colrefs) <= DoubleBrackets(input)

\* C10, for inputs whose opening brackets are all closed: an identifier inside a
\* bracketed reference is left unchanged, [col] is translated to [col], and the
\* output holds no "[[" that the input did not hold.
C10_NoDoubleBracketWhenClosed ==
  (colrefs # NotRun /\ BracketsClosed(input))
    => /\ IsBracketedRef(input) => colrefs = input
       /\ DoubleBrackets(colrefs) <= DoubleBrackets(input)

C10_Witness ==
  /\ colrefs # NotRun
  /\ IsBracketedRef(input)
  /\ colrefs = input

\* the if(...) call a CASE expression stands for: conditions and results in
\* pairs in source order, each translated on its own, the ELSE result last,
\* between the text before CASE and the text after END
CaseExpected(sh, friendly) ==
  LET pairs == Flatten([i \in 1..Len(sh.clauses) |->
                 << convertExpressionToSigma(sh.clauses[i][1], friendly),
                    convertExpressionToSigma(sh.clauses[i][2], friendly) >>])
      ifArgs == IF sh.otherwise = <<>> THEN pairs
                ELSE Append(pairs, convertExpressionToSigma(sh.otherwise, friendly))
  IN  sh.before \o S_if_open \o Join(ifArgs, <<",">>) \o <<")">> \o sh.after

\* C11: a CASE expression with n >= 1 WHEN/THEN clauses and an optional ELSE
\* becomes if(c1,r1,...,cn,rn[,else]): the pairs in source order, each part
\* translated independently, the ELSE result last, and the text before CASE
\* and after END kept.
C11_CaseBecomesIf ==
  epc = "case"
    => \A sh \in CaseShapes :
         input = CaseText(sh) => caseOut = CaseExpected(sh, flag)

\* the term a CONCAT argument stands for: a quoted literal as it is, anything
\* else with its columns bracketed and then translated
ConcatTerm(arg, friendly) ==
  IF Len(arg) >= 1 /\ Head(arg) = "'" /\ arg[Len(arg)] = "'"
    THEN arg
    ELSE convertExpressionToSigma(convertColumnReferences(arg, friendly), friendly)

ConcatExpected(args, friendly) ==
  Join([i \in 1..Len(args) |-> ConcatTerm(args[i], friendly)], S_amp)

\* C12: CONCAT(a1, ..., ak) becomes t1 & t2 & ... & tk, a quoted literal kept
\* verbatim and every other argument bracketed and translated, a nested CONCAT
\* included; CONCAT(col1, ' - ', col2) gives [col1] & ' - ' & [col2] and
\* CONCAT(col1, CONCAT(col2, col3)) gives [col1] & [col2] & [col3].
C12_ConcatBecomesAmpersands ==
  epc = "concat"
    => /\ \A args \in ConcatArgLists :
            input = ConcatText(args) => concatOut = ConcatExpected(args, flag)
       /\ (~flag /\ input = <<"C", "O", "N", "C", "A", "T", "(", "c", "o", "l", "1", ",", " ", "'", " ", "-", " ", "'", ",", " ", "c", "o", "l", "2", ")">>)
            => concatOut = <<"[", "c", "o", "l", "1", "]", " ", "&", " ", "'", " ", "-", " ", "'", " ", "&", " ", "[", "c", "o", "l", "2", "]">>
       /\ (~flag /\ input = <<"C", "O", "N", "C", "A", "T", "(", "c", "o", "l", "1", ",", " ", "C", "O", "N", "C", "A", "T", "(", "c", "o", "l", "2", ",", " ", "c", "o", "l", "3", ")", ")">>)
            => concatOut = <<"[", "c", "o", "l", "1", "]", " ", "&", " ", "[", "c", "o", "l", "2", "]", " ", "&", " ", "[", "c", "o", "l", "3", "]">>

\* splitpart(first,delimiter,position), the first argument bracketed and
\* translated, the other two as they are
SplitExpected(args, friendly) ==
  S_splitpart_open
    \o convertExpressionToSigma(convertColumnReferences(args[1], friendly), friendly)
    \o <<",">> \o args[2] \o <<",">> \o args[3] \o <<")">>

\* C13: SPLIT_PART is rewritten only when it has exactly three top-level
\* arguments (SPLIT_PART(email, '@', 2) gives splitpart([email],'@',2)); with
\* fewer or more than three, convertSplitPart returns null.
C13_SplitPartExactlyThree ==
  epc = "split"
    => /\ \A args \in SplitArgLists :
            input = SplitText(args)
              => IF Len(args) = 3
                   THEN splitOut = SplitExpected(args, flag)
                   ELSE splitOut = ExprNull
       /\ (~flag /\ input = <<"S", "P", "L", "I", "T", "_", "P", "A", "R", "T", "(", "e", "m", "a", "i", "l", ",", " ", "'", "@", "'", ",", " ", "2", ")">>)
            => splitOut = <<"s", "p", "l", "i", "t", "p", "a", "r", "t", "(", "[", "e", "m", "a", "i", "l", "]", ",", "'", "@", "'", ",", "2", ")">>

\* the occurrences of when, concat and split_part in a text, in any case
Keywords(s) ==
  Cardinality({i \in 0..(Len(s) - 1) :
     \/ StartsWithAt(ToLowerCase(s), S_when, i)
     \/ StartsWithAt(ToLowerCase(s), S_concat, i)
     \/ StartsWithAt(ToLowerCase(s), S_split_part, i)})

RECURSIVE RemoveJinja(_)
RemoveJinja(s) ==
  LET b == Least({j \in 0..(Len(s) - 1) :
                    StartsWithAt(s, <<"{", "{">>, j) \/ StartsWithAt(s, <<"}", "}">>, j)}, -1)
  IN  IF b = -1 THEN s
      ELSE Substring(s, 0, b) \o RemoveJinja(SubstringFrom(s, b + 2))

\* parseDimensionReference(dimRef): dimRef.split('__'), parts[0] and parts[1]
Named(n, friendly) == IF friendly THEN convertToUserFriendlyName(n) ELSE n

\* parts[1]: the text after the first '__' up to the next '__'
SecondPart(rest, sep2) == IF sep2 = -1 THEN rest ELSE Substring(rest, 0, sep2)

PartAfter(rest) == SecondPart(rest, IndexOf(rest, <<"_", "_">>, 0))

SplitReference(dimRef, sep, friendly) ==
  IF sep # -1
    THEN [modelName |-> Substring(dimRef, 0, sep),
          dimensionName |-> Named(PartAfter(SubstringFrom(dimRef, sep + 2)), friendly)]
    ELSE [modelName |-> ExprNull, dimensionName |-> Named(dimRef, friendly)]

parseDimensionReference(dimRef, friendly) ==
  SplitReference(dimRef, IndexOf(dimRef, <<"_", "_">>, 0), friendly)

IsQuoteChar(c) == c \in {"'", "\""}

\* the first position at or after i that holds a quote character (-1: none)
NextQuote(s, i) == Least({j \in i..(Len(s) - 1) : IsQuoteChar(CharAt(s, j))}, -1)

NoMatch == [end |-> -1, dimension |-> <<>>, values |-> <<>>]

\* DIMENSION_REF_PATTERN, /Dimension\(['"]([^'"]+)['"]\)/, matched at position i
S_dimension_open == <<"D", "i", "m", "e", "n", "s", "i", "o", "n", "(">>

\* the quoted name between the positions open and close, and the ')' after it
DimensionQuoted(s, open, close) ==
  IF /\ open < Len(s) /\ IsQuoteChar(CharAt(s, open))
     /\ close > open + 1
     /\ StartsWithAt(s, <<")">>, close + 1)
    THEN [end |-> close + 2, dimension |-> Substring(s, open + 1, close), values |-> <<>>]
    ELSE NoMatch

DimensionOpenAt(s, open) == DimensionQuoted(s, open, NextQuote(s, open + 1))

DimensionMatchAt(s, i) ==
  IF StartsWithAt(s, S_dimension_open, i) THEN DimensionOpenAt(s, i + Len(S_dimension_open))
  ELSE NoMatch

\* the position of the first match of DIMENSION_REF_PATTERN at or after i (-1: none)
NextDimension(str, i) ==
  Least({j \in i..(Len(str) - 1) : DimensionMatchAt(str, j).end # -1}, -1)

\* findDimensionReferences(str), from position i
RECURSIVE findDimensionReferences(_, _)

ReferencesAfter(str, match) ==
  <<match.dimension>> \o findDimensionReferences(str, match.end)

ReferencesFrom(str, m) ==
  IF m = -1 THEN <<>> ELSE ReferencesAfter(str, DimensionMatchAt(str, m))

findDimensionReferences(str, i) == ReferencesFrom(str, NextDimension(str, i))

\* replace(DIMENSION_REF_PATTERN, ...) from position i
RECURSIVE ReplaceDimensions(_, _, _)

ReplaceDimension(s, i, m, match, friendly) ==
  Substring(s, i, m) \o <<"[">>
    \o parseDimensionReference(match.dimension, friendly).dimensionName
    \o <<"]">> \o ReplaceDimensions(s, match.end, friendly)

ReplaceDimensionAt(s, i, m, friendly) ==
  IF m = -1 THEN SubstringFrom(s, i)
  ELSE ReplaceDimension(s, i, m, DimensionMatchAt(s, m), friendly)

ReplaceDimensions(s, i, friendly) == ReplaceDimensionAt(s, i, NextDimension(s, i), friendly)

\* the rewrite rules of convertFilterToSigma, in the order they are applied
FilterRules == <<"in", "not in", "is not null", "is null", "not ilike", "ilike">>

\* the words of a rule's regular expression, each after \s+
RuleWords(rule) ==
  CASE rule = "in"          -> << <<"i", "n">> >>
    [] rule = "not in"      -> << <<"n", "o", "t">>, <<"i", "n">> >>
    [] rule = "is not null" -> << <<"i", "s">>, <<"n", "o", "t">>, <<"n", "u", "l", "l">> >>
    [] rule = "is null"     -> << <<"i", "s">>, <<"n", "u", "l", "l">> >>
    [] rule = "not ilike"   -> << <<"n", "o", "t">>, <<"i", "l", "i", "k", "e">> >>
    [] rule = "ilike"       -> << <<"i", "l", "i", "k", "e">> >>

\* \s+word for every word, in any case: the position after the last (-1: no match)
RECURSIVE MatchWords(_, _, _)

\* k: the position after the whitespace that starts at i
WordAt(s, i, k, words) ==
  IF k > i /\ ToLowerCase(Substring(s, k, k + Len(Head(words)))) = Head(words)
    THEN MatchWords(s, k + Len(Head(words)), Tail(words))
    ELSE -1

MatchWords(s, i, words) ==
  IF words = <<>> THEN i ELSE WordAt(s, i, SkipWhitespace(s, i), words)

\* a rule's regular expression matched at position i:
\*   /\[([^\]]+)\]\s+in\s+\(([^)]+)\)/i and the like
\* \s+\(([^)]+)\) after the words: k is the position after the whitespace, paren
\* the position of the next ')'
ListOperand(s, dim, words, k, paren) ==
  IF k > words /\ StartsWithAt(s, <<"(">>, k) /\ paren > k + 1
    THEN [end |-> paren + 1, dimension |-> dim, values |-> Substring(s, k + 1, paren)]
    ELSE NoMatch

\* \s+(['"][^'"]+['"]) after the words: quote is the position of the next quote
QuotedOperand(s, dim, words, k, quote) ==
  IF k > words /\ k < Len(s) /\ IsQuoteChar(CharAt(s, k))
     /\ quote # -1 /\ CharAt(s, quote) = CharAt(s, k)
    THEN [end |-> quote + 1, dimension |-> dim, values |-> Substring(s, k, quote + 1)]
    ELSE NoMatch

RuleOperand(s, rule, dim, words, k) ==
  IF rule \in {"is null", "is not null"}
    THEN [end |-> words, dimension |-> dim, values |-> <<>>]
  ELSE IF rule \in {"in", "not in"}
    THEN ListOperand(s, dim, words, k, IndexOf(s, <<")">>, k + 1))
  ELSE QuotedOperand(s, dim, words, k, NextQuote(s, k + 1))

\* words: the position after the rule's words (-1: they do not follow)
RuleWordsAt(s, i, rule, close, words) ==
  IF words = -1 THEN NoMatch
  ELSE RuleOperand(s, rule, Substring(s, i + 1, close), words, SkipWhitespace(s, words))

\* close: the position of the next ']'
RuleCloseAt(s, i, rule, close) ==
  IF ~(CharAt(s, i) = "[" /\ close > i + 1) THEN NoMatch
  ELSE RuleWordsAt(s, i, rule, close, MatchWords(s, close + 1, RuleWords(rule)))

RuleMatchAt(s, i, rule) == RuleCloseAt(s, i, rule, IndexOf(s, <<"]">>, i + 1))

\* what a rule puts in the place of its match
RuleOutput(rule, m) ==
  LET dim == <<"[">> \o m.dimension \o <<"]">>
      arraycontains == <<"a", "r", "r", "a", "y", "c", "o", "n", "t", "a", "i", "n", "s", "(", "a", "r", "r", "a", "y", "(">> \o m.values \o <<")", ",">> \o dim \o <<")">>
      ilike == <<"i", "l", "i", "k", "e">> \o <<"(">> \o dim \o <<",">> \o m.values \o <<")">>
  IN  CASE rule = "in"          -> arraycontains
        [] rule = "not in"      -> <<"n", "o", "t", "(">> \o arraycontains \o <<")">>
        [] rule = "is not null" -> <<"i", "s", "n", "o", "t", "n", "u", "l", "l", "(">> \o dim \o <<")">>
        [] rule = "is null"     -> <<"i", "s", "n", "u", "l", "l", "(">> \o dim \o <<")">>
        [] rule = "not ilike"   -> <<"n", "o", "t", "(">> \o ilike \o <<")">>
        [] rule = "ilike"       -> ilike

\* String.prototype.replace with a rule's global regular expression, from position i
RECURSIVE ApplyRule(_, _, _)

ApplyMatch(s, i, rule, m, match) ==
  Substring(s, i, m) \o RuleOutput(rule, match) \o ApplyRule(s, match.end, rule)

\* m: the position of the first match at or after i (-1: none)
ApplyAt(s, i, rule, m) ==
  IF m = -1 THEN SubstringFrom(s, i)
  ELSE ApplyMatch(s, i, rule, m, RuleMatchAt(s, m, rule))

ApplyRule(s, i, rule) ==
  ApplyAt(s, i, rule, Least({j \in i..(Len(s) - 1) : RuleMatchAt(s, j, rule).end # -1}, -1))

RECURSIVE ApplyRules(_, _)
ApplyRules(s, rules) ==
  IF rules = <<>> THEN s ELSE ApplyRules(ApplyRule(s, 0, Head(rules)), Tail(rules))

convertFilterToSigma(filter, friendly) ==
  ApplyRules(ReplaceDimensions(NormalizeWhitespace(RemoveJinja(filter)), 0, friendly),
             FilterRules)

\* the filters that are converted: conditions joined by and, each a dimension
\* reference followed by an operator and its operand
FilterDimensions ==
  { [text |-> <<"{", "{", " ", "D", "i", "m", "e", "n", "s", "i", "o", "n", "(", "'", "o", "_", "_", "s", "t", "'", ")", " ", "}", "}">>, name |-> <<"s", "t">>],
    [text |-> <<"D", "i", "m", "e", "n", "s", "i", "o", "n", "(", "\"", "o", "_", "_", "i", "s", "_", "x", "\"", ")">>, name |-> <<"i", "s", "_", "x">>] }

FilterForms ==
  { [op |-> "in", text |-> <<" ", "i", "n", " ", "(", "'", "a", "'", ",", "'", "b", "'", ")">>, operand |-> <<"'", "a", "'", ",", "'", "b", "'">>],
    [op |-> "in", text |-> <<" ", "I", "N", " ", "(", "'", "a", "'", ")">>, operand |-> <<"'", "a", "'">>],
    [op |-> "in", text |-> <<" ", "i", "n", " ", "(", "'", "a", ")", "'", ")">>, operand |-> <<"'", "a", ")", "'">>],
    [op |-> "not in", text |-> <<" ", "n", "o", "t", " ", "i", "n", " ", "(", "'", "a", "'", ",", "'", "b", "'", ")">>, operand |-> <<"'", "a", "'", ",", "'", "b", "'">>],
    [op |-> "is null", text |-> <<" ", "i", "s", " ", "n", "u", "l", "l">>, operand |-> <<" ", "i", "s", " ", "n", "u", "l", "l">>],
    [op |-> "is not null", text |-> <<" ", "i", "s", " ", "n", "o", "t", " ", "n", "u", "l", "l">>, operand |-> <<" ", "i", "s", " ", "n", "o", "t", " ", "n", "u", "l", "l">>],
    [op |-> "ilike", text |-> <<" ", "i", "l", "i", "k", "e", " ", "'", "x", "%", "'">>, operand |-> <<"'", "x", "%", "'">>],
    [op |-> "not ilike", text |-> <<" ", "n", "o", "t", " ", "i", "l", "i", "k", "e", " ", "\"", "x", "%", "\"">>, operand |-> <<"\"", "x", "%", "\"">>],
    [op |-> "other", text |-> <<" ", "=", " ", "'", "a", "'">>, operand |-> <<" ", "=", " ", "'", "a", "'">>],
    [op |-> "other", text |-> <<" ", "!", "=", " ", "1">>, operand |-> <<" ", "!", "=", " ", "1">>],
    [op |-> "other", text |-> <<" ", "<", "=", " ", "1", "0", "0">>, operand |-> <<" ", "<", "=", " ", "1", "0", "0">>],
    [op |-> "other", text |-> <<" ", "l", "i", "k", "e", " ", "'", "x", "%", "'">>, operand |-> <<" ", "l", "i", "k", "e", " ", "'", "x", "%", "'">>] }

MaxConditions == 2

FilterConditions == [dim : FilterDimensions, form : FilterForms]

FilterShapes == UNION {[1..n -> FilterConditions] : n \in 1..MaxConditions}

FilterText(sh) ==
  Join([i \in 1..Len(sh) |-> sh[i].dim.text \o sh[i].form.text], <<" ", "a", "n", "d", " ">>)

FilterInputs == {FilterText(sh) : sh \in FilterShapes}

\* convertFilterToSigma(filterStr, modelName)
ConvertFilter ==
  /\ fpc = "input"
  /\ filterOut' = convertFilterToSigma(filterStr, flag)
  /\ fpc' = "converted"
  /\ UNCHANGED <<dagVars, procVars, timeVars>>
  /\ UNCHANGED <<input, epc, output, output2, colrefs, caseOut, concatOut, splitOut, passes,
                 nesting, flag>>
  /\ UNCHANGED <<filterStr, mpc, sourceMetrics, mpos, convertedMetrics, modelMetrics,
                 crossModelMetrics>>

InitFilter ==
  /\ DagIdle
  /\ ProcIdle
  /\ sigmaModelDir = [n \in Models |-> NULL]
  /\ testFlag = FALSE
  /\ epc = "idle" /\ input = <<>> /\ output = NotRun /\ output2 = NotRun /\ colrefs = NotRun
  /\ caseOut = NotRun /\ concatOut = NotRun /\ splitOut = NotRun /\ passes = 0 /\ nesting = 0
  /\ flag \in BOOLEAN
  /\ fpc = "input"
  /\ filterStr \in FilterInputs
  /\ filterOut = NotRun
  /\ mpc = "idle"
  /\ sourceMetrics = <<>>
  /\ mpos = 0
  /\ convertedMetrics = <<>>
  /\ modelMetrics = <<>>
  /\ crossModelMetrics = <<>>
  /\ TimeIdle

NextFilter == ConvertFilter

SpecFilter == InitFilter /\ [][NextFilter]_vars

\* what a condition stands for: the bracketed dimension with the operator's
\* function around it, or with the operator and operand as they were
ConditionExpected(c, friendly) ==
  LET d == <<"[">> \o (IF friendly THEN convertToUserFriendlyName(c.dim.name) ELSE c.dim.name)
             \o <<"]">>
      v == c.form.operand
  IN  CASE c.form.op = "in"          -> <<"a", "r", "r", "a", "y", "c", "o", "n", "t", "a", "i", "n", "s", "(", "a", "r", "r", "a", "y", "(">> \o v \o <<")", ",">> \o d \o <<")">>
        [] c.form.op = "not in"      -> <<"n", "o", "t", "(", "a", "r", "r", "a", "y", "c", "o", "n", "t", "a", "i", "n", "s", "(", "a", "r", "r", "a", "y", "(">> \o v \o <<")", ",">> \o d \o <<")", ")">>
        [] c.form.op = "is null"     -> <<"i", "s", "n", "u", "l", "l", "(">> \o d \o <<")">>
        [] c.form.op = "is not null" -> <<"i", "s", "n", "o", "t", "n", "u", "l", "l", "(">> \o d \o <<")">>
        [] c.form.op = "ilike"       -> <<"i", "l", "i", "k", "e", "(">> \o d \o <<",">> \o v \o <<")">>
        [] c.form.op = "not ilike"   -> <<"n", "o", "t", "(", "i", "l", "i", "k", "e", "(">> \o d \o <<",">> \o v \o <<")", ")">>
        [] OTHER                     -> d \o c.form.text

FilterExpected(sh, friendly) ==
  Join([i \in 1..Len(sh) |-> ConditionExpected(sh[i], friendly)], <<" ", "a", "n", "d", " ">>)

\* C20: convertFilterToSigma turns Dimension('m__d') into [d], in into
\* arraycontains(array(v...),[d]), not in into not(arraycontains(...)), is null
\* and is not null into isnull([d]) and isnotnull([d]), ilike and not ilike
\* into ilike([d],p) and not(ilike([d],p)); other operators pass unchanged, and
\* a not form is never rewritten in part by the rule of its positive form.
C20_FilterRewritten ==
  fpc = "converted"
    => \A sh \in FilterShapes :
         filterStr = FilterText(sh) => filterOut = FilterExpected(sh, flag)

\* ---------------------------------------------------------------------------
\* Metrics: canAddMetricToModel, buildSigmaMeasureFormula, convertMetricToSigma
\* ---------------------------------------------------------------------------

\* a JavaScript property that is absent
Undefined == <<"undefined">>

\* JavaScript truthiness of a string-or-missing value
JsTruthy(v) == v # ExprNull /\ v # Undefined /\ v # <<>>

\* the semantic model under translation: its measures and its entities
semanticModel ==
  [name |-> <<"o", "r", "d", "e", "r", "s">>,
   measures |-> << [name |-> <<"r", "e", "v">>, agg |-> <<"s", "u", "m">>, expr |-> <<"n", "e", "t", "_", "a", "m", "t">>],
                   [name |-> <<"c", "n", "t">>, agg |-> <<"c", "o", "u", "n", "t">>, expr |-> <<"i", "d">>] >>,
   entities |-> << [name |-> <<"o">>] >>]

\* Array.prototype.find on a sequence of records with a name field: the first
\* index whose name is n, 0 if none
RECURSIVE FindByName(_, _, _)
FindByName(list, n, i) ==
  IF i > Len(list) THEN 0
  ELSE IF list[i].name = n THEN i
  ELSE FindByName(list, n, i + 1)

HasName(list, n) == FindByName(list, n, 1) # 0

\* a reference inside type_params: a bare string (str) or an object with a
\* name, an optional filter and an optional alias
StringRef(n) == [name |-> n, filter |-> Undefined, alias |-> Undefined, str |-> TRUE]

ObjectRef(n, f, a) == [name |-> n, filter |-> f, alias |-> a, str |-> FALSE]

NoRef == [name |-> Undefined, filter |-> Undefined, alias |-> Undefined, str |-> FALSE]

\* typeof ref === 'string' ? ref : ref.name
RefMetricName(ref) == ref.name

\* canAddMetricToModel, the check applied to one referenced name: a measure of
\* the model, or a metric of the catalog
Resolvable(metricName, model, allMetrics) ==
  HasName(model.measures, metricName) \/ HasName(allMetrics, metricName)

\* extractDimensionReferences: the Dimension(...) references of the filters
\* attached to the entries of type_params.metrics
RECURSIVE extractDimensionReferences(_, _)
extractDimensionReferences(refs, i) ==
  IF i > Len(refs) THEN <<>>
  ELSE (IF JsTruthy(refs[i].filter) THEN findDimensionReferences(refs[i].filter, 0) ELSE <<>>)
       \o extractDimensionReferences(refs, i + 1)

\* canAddMetricToModel, its last check: every dimension reference names an
\* entity of the model
OnEntities(dimRefs, model, friendly) ==
  \A i \in 1..Len(dimRefs) :
    \E e \in 1..Len(model.entities) :
      model.entities[e].name = parseDimensionReference(dimRefs[i], friendly).modelName

\* canAddMetricToModel
canAddMetricToModel(metric, model, allMetrics, friendly) ==
  /\ \A i \in 1..Len(metric.metrics) :
       Resolvable(RefMetricName(metric.metrics[i]), model, allMetrics)
  /\ metric.type = "ratio" =>
       /\ metric.numerator # NoRef =>
            Resolvable(RefMetricName(metric.numerator), model, allMetrics)
       /\ metric.denominator # NoRef =>
            Resolvable(RefMetricName(metric.denominator), model, allMetrics)
  /\ OnEntities(extractDimensionReferences(metric.metrics, 1), model, friendly)

\* buildMeasureFormula
buildMeasureFormula(measure, friendly) ==
  LET userFriendlyExpr == IF friendly THEN convertToUserFriendlyName(measure.expr)
                          ELSE measure.expr
      aggFunc == IF measure.agg = <<"c", "o", "u", "n", "t", "_", "d", "i", "s", "t", "i", "n", "c", "t">> THEN <<"c", "o", "u", "n", "t", "d", "i", "s", "t", "i", "n", "c", "t">> ELSE measure.agg
  IN  [formula |-> aggFunc \o <<"(", "[">> \o userFriendlyExpr \o <<"]", ")">>,
       aggFunc |-> aggFunc,
       measureExpr |-> userFriendlyExpr,
       existingFilter |-> ExprNull]

\* buildMeasureFormulaWithFilter, the conditional aggregate of an aggregation
IfAggregate(measureAgg) ==
  IF measureAgg \in {<<"s", "u", "m">>, <<"a", "v", "g">>, <<"m", "i", "n">>, <<"m", "a", "x">>, <<"c", "o", "u", "n", "t">>} THEN measureAgg \o <<"i", "f">>
  ELSE IF measureAgg = <<"c", "o", "u", "n", "t", "_", "d", "i", "s", "t", "i", "n", "c", "t">> THEN <<"c", "o", "u", "n", "t", "d", "i", "s", "t", "i", "n", "c", "t", "i", "f">>
  ELSE ExprNull

\* a value inside a template literal
Interpolate(v) == IF v = ExprNull THEN <<"n", "u", "l", "l">> ELSE IF v = Undefined THEN <<"u", "n", "d", "e", "f", "i", "n", "e", "d">> ELSE v

\* buildMeasureFormulaWithFilter, the object built from the conditional
\* aggregate and the converted filter
FilteredMeasure(measure, aggFunc, convertedFilter) ==
  [formula |-> IF measure.agg = <<"c", "o", "u", "n", "t">>
               THEN Interpolate(aggFunc) \o <<"(">> \o Interpolate(convertedFilter) \o <<")">>
               ELSE Interpolate(aggFunc) \o <<"(", "[">> \o measure.expr \o <<"]", ",">>
                    \o Interpolate(convertedFilter) \o <<")">>,
   aggFunc |-> aggFunc,
   measureExpr |-> IF measure.agg = <<"c", "o", "u", "n", "t">> THEN ExprNull ELSE measure.expr,
   existingFilter |-> convertedFilter]

\* buildMeasureFormulaWithFilter
buildMeasureFormulaWithFilter(measure, filter, friendly) ==
  FilteredMeasure(measure, IfAggregate(measure.agg), convertFilterToSigma(filter, friendly))

\* combineFilters
combineFilters(existingFilter, newFilter) ==
  IF ~JsTruthy(existingFilter) THEN newFilter
  ELSE IF ~JsTruthy(newFilter) THEN existingFilter
  ELSE <<"(">> \o existingFilter \o <<")", " ", "a", "n", "d", " ">> \o newFilter

\* rebuildFilteredFormula
rebuildFilteredFormula(aggFunc, measureExpr, combinedFilter) ==
  IF aggFunc = <<"c", "o", "u", "n", "t", "i", "f">>
  THEN aggFunc \o <<"(">> \o Interpolate(combinedFilter) \o <<")">>
  ELSE aggFunc \o <<"(", "[">> \o Interpolate(measureExpr) \o <<"]", ",">>
       \o Interpolate(combinedFilter) \o <<")">>

\* parseExprParts, the matches of /\b[a-zA-Z_][a-zA-Z0-9_]*\b/g from position i on
RECURSIVE ExprWords(_, _)

WordsAt(expr, m, wordEnd) == <<Substring(expr, m, wordEnd)>> \o ExprWords(expr, wordEnd)

WordsFrom(expr, m) == IF m = -1 THEN <<>> ELSE WordsAt(expr, m, WordEnd(expr, m))

ExprWords(expr, i) ==
  WordsFrom(expr, Least({j \in i..(Len(expr) - 1) : IsIdentStart(expr, j)}, -1))

\* [...new Set(parts)]: first occurrences, in order
RECURSIVE Dedupe(_, _)
Dedupe(parts, seen) ==
  IF parts = <<>> THEN <<>>
  ELSE IF Head(parts) \in seen THEN Dedupe(Tail(parts), seen)
  ELSE <<Head(parts)>> \o Dedupe(Tail(parts), seen \cup {Head(parts)})

\* parseExprParts
parseExprParts(expr) == IF ~JsTruthy(expr) THEN <<>> ELSE Dedupe(ExprWords(expr, 0), {})

\* findMetricInTypeParams, one of its two loops: the first object entry whose
\* alias (byAlias) or name equals exprPart, 0 if none
RECURSIVE FindRef(_, _, _, _)
FindRef(typeParamMetrics, exprPart, byAlias, i) ==
  IF i > Len(typeParamMetrics) THEN 0
  ELSE IF /\ ~typeParamMetrics[i].str
          /\ (IF byAlias THEN typeParamMetrics[i].alias ELSE typeParamMetrics[i].name) = exprPart
       THEN i
       ELSE FindRef(typeParamMetrics, exprPart, byAlias, i + 1)

\* findMetricInTypeParams: by alias first, then by name; NoRef stands for null
FoundRef(typeParamMetrics, a, n) ==
  IF a # 0 THEN typeParamMetrics[a]
  ELSE IF n # 0 THEN typeParamMetrics[n]
  ELSE NoRef

findMetricInTypeParams(typeParamMetrics, exprPart) ==
  FoundRef(typeParamMetrics, FindRef(typeParamMetrics, exprPart, TRUE, 1),
           FindRef(typeParamMetrics, exprPart, FALSE, 1))

\* convertedExpr.replace(new RegExp(`\\b${part}\\b`, 'g'), formula), from position i on
RECURSIVE ReplaceWord(_, _, _, _)

\* m: the position of the next whole-word occurrence of part (-1: none)
ReplaceWordAt(text, part, formula, i, m) ==
  IF m = -1 THEN SubstringFrom(text, i)
  ELSE Substring(text, i, m) \o formula \o ReplaceWord(text, part, formula, m + Len(part))

ReplaceWord(text, part, formula, i) ==
  ReplaceWordAt(text, part, formula, i,
    Least({j \in i..(Len(text) - 1) :
             /\ StartsWithAt(text, part, j)
             /\ (j = 0 \/ ~IsWordChar(CharAt(text, j - 1)))
             /\ (j + Len(part) = Len(text) \/ ~IsWordChar(CharAt(text, j + Len(part))))},
          -1))

\* convertExpression, its second loop: the parts replaced one after the other
RECURSIVE ReplaceParts(_, _, _)
ReplaceParts(convertedExpr, parts, formulas) ==
  IF parts = <<>> THEN convertedExpr
  ELSE ReplaceParts(ReplaceWord(convertedExpr, Head(parts), Head(formulas), 0),
                    Tail(parts), Tail(formulas))

\* convertedMetrics[k] = v
Put(cm, k, v) == [n \in DOMAIN cm \cup {k} |-> IF n = k THEN v ELSE cm[n]]

\* a formula object that holds only a formula
FormulaOnly(f) ==
  [formula |-> f, aggFunc |-> Undefined, measureExpr |-> Undefined, existingFilter |-> Undefined]

\* what a call leaves behind: the value it returns, convertedMetrics as it has
\* become, and whether the call stack was exhausted (RangeError)
Returned(f, cm) == [formula |-> f, cm |-> cm, thrown |-> FALSE]

Thrown(cm) == [formula |-> ExprNull, cm |-> cm, thrown |-> TRUE]

RECURSIVE convertMetricToSigma(_, _, _, _, _)
RECURSIVE buildSigmaMeasureFormula(_, _, _, _, _)
RECURSIVE ConvertParts(_, _, _, _, _, _, _)

\* buildSigmaMeasureFormula, the combined filter and the formula rebuilt with
\* it are stored under the referenced metric's name
StoreCombined(metricName, obj, cm, combinedFilter, combinedFormula) ==
  Returned(combinedFormula,
           Put(cm, metricName,
               [formula |-> combinedFormula,
                aggFunc |-> obj.aggFunc,
                measureExpr |-> obj.measureExpr,
                existingFilter |-> combinedFilter]))

WithCombined(metricName, obj, cm, combinedFilter) ==
  StoreCombined(metricName, obj, cm, combinedFilter,
                rebuildFilteredFormula(obj.aggFunc, obj.measureExpr, combinedFilter))

\* buildSigmaMeasureFormula, the part after the referenced metric's formula
\* object is known: the reference's own filter combined with the stored one
ReferencedFormula(typeParamMetric, obj, cm, friendly) ==
  IF ~typeParamMetric.str /\ JsTruthy(typeParamMetric.filter)
  THEN IF /\ JsTruthy(obj.aggFunc)
          /\ obj.existingFilter # ExprNull
          /\ obj.existingFilter # Undefined
       THEN WithCombined(RefMetricName(typeParamMetric), obj, cm,
                         combineFilters(obj.existingFilter,
                                        convertFilterToSigma(typeParamMetric.filter, friendly)))
       ELSE Returned(obj.formula, cm)
  ELSE Returned(obj.formula, cm)

\* buildSigmaMeasureFormula, the measure branch: the formula object of a measure
MeasureFormula(typeParamMetric, measure, friendly) ==
  IF ~typeParamMetric.str /\ JsTruthy(typeParamMetric.filter)
  THEN buildMeasureFormulaWithFilter(measure, typeParamMetric.filter, friendly)
  ELSE buildMeasureFormula(measure, friendly)

\* convertedMetrics[metricName] = sigmaFormulaObject; return sigmaFormulaObject.formula
StoreMeasure(cm, metricName, sigmaFormulaObject) ==
  Returned(sigmaFormulaObject.formula, Put(cm, metricName, sigmaFormulaObject))

\* buildSigmaMeasureFormula, the metric branch after the recursive conversion
AfterConversion(typeParamMetric, convertedMetric, friendly) ==
  IF convertedMetric.thrown THEN convertedMetric
  ELSE IF JsTruthy(convertedMetric.formula)
  THEN ReferencedFormula(typeParamMetric, convertedMetric.cm[RefMetricName(typeParamMetric)],
                         convertedMetric.cm, friendly)
  ELSE Returned(ExprNull, convertedMetric.cm)

\* buildSigmaMeasureFormula with the positions of the name among the measures
\* (m) and among the metrics (r), 0 when it is not there
FormulaAt(typeParamMetric, allMetrics, cm, active, friendly, m, r) ==
  IF m # 0
  THEN StoreMeasure(cm, RefMetricName(typeParamMetric),
                    MeasureFormula(typeParamMetric, semanticModel.measures[m], friendly))
  ELSE IF r # 0
  THEN IF RefMetricName(typeParamMetric) \in DOMAIN cm
       THEN ReferencedFormula(typeParamMetric, cm[RefMetricName(typeParamMetric)], cm, friendly)
       ELSE AfterConversion(typeParamMetric,
                            convertMetricToSigma(allMetrics[r], allMetrics, cm, active, friendly),
                            friendly)
  ELSE Returned(ExprNull, cm)

\* buildSigmaMeasureFormula; active holds the metrics whose conversion is on
\* the call stack
buildSigmaMeasureFormula(typeParamMetric, allMetrics, cm, active, friendly) ==
  FormulaAt(typeParamMetric, allMetrics, cm, active, friendly,
            FindByName(semanticModel.measures, RefMetricName(typeParamMetric), 1),
            FindByName(allMetrics, RefMetricName(typeParamMetric), 1))

\* convertExpression, its first loop after the formula of a part was built
AfterPart(parts, typeParamMetrics, allMetrics, active, friendly, formulas, b) ==
  IF b.thrown THEN b
  ELSE IF ~JsTruthy(b.formula) THEN Returned(ExprNull, b.cm)
  ELSE ConvertParts(Tail(parts), typeParamMetrics, allMetrics, b.cm, active, friendly,
                    Append(formulas, b.formula))

ConvertPart(parts, typeParamMetrics, allMetrics, cm, active, friendly, formulas, typeParamMetric) ==
  IF typeParamMetric = NoRef THEN Returned(ExprNull, cm)
  ELSE AfterPart(parts, typeParamMetrics, allMetrics, active, friendly, formulas,
                 buildSigmaMeasureFormula(typeParamMetric, allMetrics, cm, active, friendly))

\* convertExpression, its first loop: the formula of every part, in order;
\* formula is ExprNull as soon as one part has none
ConvertParts(parts, typeParamMetrics, allMetrics, cm, active, friendly, formulas) ==
  IF parts = <<>> THEN Returned(formulas, cm)
  ELSE ConvertPart(parts, typeParamMetrics, allMetrics, cm, active, friendly, formulas,
                   findMetricInTypeParams(typeParamMetrics, Head(parts)))

\* convertExpression, after its first loop: p holds the formulas of the parts
ReplacedExpression(expr, parts, p) ==
  IF p.thrown \/ p.formula = ExprNull THEN p
  ELSE Returned(ReplaceParts(expr, parts, p.formula), p.cm)

ConvertExpressionParts(expr, parts, typeParamMetrics, allMetrics, cm, active, friendly) ==
  IF parts = <<>> THEN Returned(ExprNull, cm)
  ELSE ReplacedExpression(expr, parts,
         ConvertParts(parts, typeParamMetrics, allMetrics, cm, active, friendly, <<>>))

\* convertExpression
convertExpression(expr, typeParamMetrics, allMetrics, cm, active, friendly) ==
  ConvertExpressionParts(expr, parseExprParts(expr), typeParamMetrics, allMetrics, cm, active,
                         friendly)

\* convertMetricToSigma, the simple branch after convertExpression: the
\* measure's formula object is stored under the metric's name as well
CopyUnderName(metric, c) ==
  IF c.thrown THEN c
  ELSE IF metric.measure \in DOMAIN c.cm /\ c.cm[metric.measure].aggFunc # Undefined
  THEN Returned(c.formula, Put(c.cm, metric.name, c.cm[metric.measure]))
  ELSE c

\* convertMetricToSigma, the simple branch
ConvertSimple(metric, allMetrics, cm, active, friendly) ==
  CopyUnderName(metric,
    convertExpression(metric.measure,
                      << ObjectRef(metric.measure,
                                   IF JsTruthy(metric.filter) THEN metric.filter ELSE Undefined,
                                   Undefined) >>,
                      allMetrics, cm, active, friendly))

\* a ratio formula that is built as soon as one side has resolved
RatioOfEitherSide(n, d) ==
  IF JsTruthy(n.formula) \/ JsTruthy(d.formula)
  THEN Returned(<<"(">> \o Interpolate(n.formula) \o <<")", " ", "/", " ", "(">>
                \o Interpolate(d.formula) \o <<")">>, d.cm)
  ELSE Returned(Undefined, d.cm)

\* convertMetricToSigma, the ratio branch: if (numeratorFormula && denominatorFormula)
RatioOf(n, d) ==
  IF JsTruthy(n.formula) /\ JsTruthy(d.formula)
  THEN Returned(<<"(">> \o n.formula \o <<")", " ", "/", " ", "(">> \o d.formula \o <<")">>, d.cm)
  ELSE Returned(Undefined, d.cm)

RatioAfterDenominator(n, d) == IF d.thrown THEN d ELSE RatioOf(n, d)

RatioAfterNumerator(metric, allMetrics, active, friendly, n) ==
  IF n.thrown THEN n
  ELSE RatioAfterDenominator(n,
         buildSigmaMeasureFormula(metric.denominator, allMetrics, n.cm, active, friendly))

\* convertMetricToSigma, the ratio branch
ConvertRatio(metric, allMetrics, cm, active, friendly) ==
  RatioAfterNumerator(metric, allMetrics, active, friendly,
    buildSigmaMeasureFormula(metric.numerator, allMetrics, cm, active, friendly))

\* convertMetricToSigma, the branch taken for the metric's type; inner holds
\* the metrics whose conversion is on the call stack, this one included
ConvertByType(metric, allMetrics, cm, inner, friendly) ==
  IF metric.type = "simple" /\ JsTruthy(metric.measure)
  THEN ConvertSimple(metric, allMetrics, cm, inner, friendly)
  ELSE IF /\ metric.type = "derived"
          /\ JsTruthy(metric.expr)
          /\ Len(metric.metrics) > 0
  THEN convertExpression(metric.expr, metric.metrics, allMetrics, cm, inner, friendly)
  ELSE IF /\ metric.type = "ratio"
          /\ metric.numerator # NoRef
          /\ metric.denominator # NoRef
  THEN ConvertRatio(metric, allMetrics, cm, inner, friendly)
  ELSE Returned(Undefined, cm)

\* convertMetricToSigma, its end: a formula that is not yet stored under the
\* metric's name is stored there
StoreFormula(metric, c) ==
  IF c.thrown THEN c
  ELSE IF JsTruthy(c.formula) /\ metric.name \notin DOMAIN c.cm
  THEN Returned(c.formula, Put(c.cm, metric.name, FormulaOnly(c.formula)))
  ELSE c

\* convertMetricToSigma: the sigmaMetric's formula (Undefined when none was
\* set) and convertedMetrics afterwards. A call for a metric whose conversion
\* is already on the call stack repeats the calls that led to it, without end.
convertMetricToSigma(metric, allMetrics, cm, active, friendly) ==
  IF metric.name \in active THEN Thrown(cm)
  ELSE StoreFormula(metric,
                    ConvertByType(metric, allMetrics, cm, active \cup {metric.name}, friendly))

\* ---------------------------------------------------------------------------
\* Metric catalogs and the three metric passes of convertSemantics
\* ---------------------------------------------------------------------------

\* a dbt metric: name, type, and the type_params and filter it carries
Metric(n, t, measure, filter, expr, refs, numerator, denominator) ==
  [name |-> n, type |-> t, measure |-> measure, filter |-> filter, expr |-> expr,
   metrics |-> refs, numerator |-> numerator, denominator |-> denominator]

\* filters on the model's entity o, and one on an entity the model lacks
FilterOnStatus == <<"{", "{", " ", "D", "i", "m", "e", "n", "s", "i", "o", "n", "(", "'", "o", "_", "_", "s", "t", "'", ")", " ", "}", "}", " ", "=", " ", "'", "a", "'">>

FilterOnKind == <<"{", "{", " ", "D", "i", "m", "e", "n", "s", "i", "o", "n", "(", "'", "o", "_", "_", "k", "'", ")", " ", "}", "}", " ", ">", " ", "1">>

FilterOnRegion == <<"{", "{", " ", "D", "i", "m", "e", "n", "s", "i", "o", "n", "(", "'", "c", "_", "_", "r", "g", "'", ")", " ", "}", "}", " ", "=", " ", "'", "e", "'">>

\* a measure name that the model does not declare and no metric carries
AbsentName == <<"z", "z">>

MetricNames == <<<<"x">>, <<"y">>, <<"z">>>>

MeasureNames == {semanticModel.measures[i].name : i \in 1..Len(semanticModel.measures)}

\* the most metrics a catalog holds
MaxMetrics == 2

\* the names the k-th metric of a catalog may carry: its own, and for the
\* first the name of a measure
NamesAt(k) == {MetricNames[k]} \cup (IF k = 1 THEN {<<"r", "e", "v">>} ELSE {})

ReferableNames == {MetricNames[1], MetricNames[2]}

SimpleOptions(n) ==
  {Metric(n, "simple", measure, filter, Undefined, <<>>, NoRef, NoRef) :
     measure \in MeasureNames \cup {AbsentName, n},
     filter \in {Undefined, FilterOnStatus, FilterOnRegion}}

DerivedOptions(n) ==
  {Metric(n, "derived", Undefined, Undefined, t, <<ObjectRef(t, filter, Undefined)>>,
          NoRef, NoRef) :
     t \in ReferableNames \cup {<<"r", "e", "v">>, AbsentName},
     filter \in {Undefined, FilterOnKind, FilterOnRegion}}
  \cup
  {Metric(n, "derived", Undefined, Undefined, <<"a", " ", "-", " ", "b">>,
          <<ObjectRef(t, FilterOnKind, <<"a">>), ObjectRef(t, FilterOnStatus, <<"b">>)>>,
          NoRef, NoRef) :
     t \in ReferableNames}
  \cup
  {Metric(n, "derived", Undefined, Undefined, <<"a", " ", "-", " ", "i", "d">>,
          <<ObjectRef(<<"c", "n", "t">>, Undefined, <<"a">>),
            ObjectRef(<<"r", "e", "v">>, Undefined, <<"i", "d">>)>>,
          NoRef, NoRef)}
  \cup
  {Metric(n, "derived", Undefined, Undefined, t, <<StringRef(t)>>, NoRef, NoRef) :
     t \in {<<"r", "e", "v">>, MetricNames[1]}}

Numerators ==
  {StringRef(<<"r", "e", "v">>), StringRef(MetricNames[1]), StringRef(MetricNames[2]),
   ObjectRef(MetricNames[1], FilterOnKind, Undefined),
   ObjectRef(<<"r", "e", "v">>, FilterOnKind, Undefined),
   ObjectRef(<<"r", "e", "v">>, FilterOnRegion, Undefined)}

Denominators ==
  {StringRef(<<"c", "n", "t">>), StringRef(AbsentName), StringRef(MetricNames[2]),
   ObjectRef(MetricNames[2], FilterOnKind, Undefined)}

RatioOptions(n) ==
  {Metric(n, "ratio", Undefined, Undefined, Undefined, <<>>, numerator, denominator) :
     numerator \in Numerators, denominator \in Denominators}

MetricOptions(k) ==
  UNION {SimpleOptions(n) \cup DerivedOptions(n) \cup RatioOptions(n) : n \in NamesAt(k)}

\* sourceData.metrics: one metric per name, up to MaxMetrics of them
RECURSIVE CatalogsOf(_)
CatalogsOf(k) ==
  IF k = 0 THEN {<<>>}
  ELSE {Append(c, m) : c \in CatalogsOf(k - 1), m \in MetricOptions(k)}

Catalogs == UNION {CatalogsOf(k) : k \in 1..MaxMetrics}

\* the order in which the three forEach loops visit the catalog
PassOrder(allMetrics) ==
  SelectSeq(allMetrics, LAMBDA m : m.type = "simple")
  \o SelectSeq(allMetrics, LAMBDA m : m.type = "derived")
  \o SelectSeq(allMetrics, LAMBDA m : m.type = "ratio")

\* the entries pushed for the model's measures before the metric passes
MeasureEntries ==
  [i \in 1..Len(semanticModel.measures) |->
     [name |-> semanticModel.measures[i].name,
      formula |-> buildMeasureFormula(semanticModel.measures[i], flag).formula]]

\* a metric pass, after convertMetricToSigma: a metric with a formula is pushed
PushConverted(metric, sigmaMetric) ==
  /\ convertedMetrics' = sigmaMetric.cm
  /\ mpc' = IF sigmaMetric.thrown THEN "thrown" ELSE mpc
  /\ modelMetrics' =
       IF ~sigmaMetric.thrown /\ JsTruthy(sigmaMetric.formula)
       THEN Append(modelMetrics, [name |-> metric.name, formula |-> sigmaMetric.formula])
       ELSE modelMetrics
  /\ UNCHANGED crossModelMetrics

\* the callback of the pass over the metrics of type t, applied to metric
ProcessAt(t, metric) ==
  /\ metric.type = t
  /\ IF canAddMetricToModel(metric, semanticModel, sourceMetrics, flag)
     THEN PushConverted(metric,
            convertMetricToSigma(metric, sourceMetrics, convertedMetrics, {}, flag))
     ELSE /\ crossModelMetrics' = Append(crossModelMetrics, metric)
          /\ UNCHANGED <<convertedMetrics, modelMetrics, mpc>>

\* one callback of a metric pass: canAddMetricToModel, then convertMetricToSigma
\* and the push, or the push to crossModelMetrics
ProcessMetric(t) ==
  /\ mpc = "metrics"
  /\ mpos < Len(PassOrder(sourceMetrics))
  /\ ProcessAt(t, PassOrder(sourceMetrics)[mpos + 1])
  /\ mpos' = mpos + 1
  /\ UNCHANGED <<dagVars, procVars, exprVars, timeVars>>
  /\ UNCHANGED <<fpc, filterStr, filterOut, sourceMetrics>>

ProcessSimple == ProcessMetric("simple")

ProcessDerived == ProcessMetric("derived")

ProcessRatio == ProcessMetric("ratio")

InitMetric ==
  /\ DagIdle
  /\ ProcIdle
  /\ sigmaModelDir = [n \in Models |-> NULL]
  /\ testFlag = FALSE
  /\ epc = "idle" /\ input = <<>> /\ output = NotRun /\ output2 = NotRun /\ colrefs = NotRun
  /\ caseOut = NotRun /\ concatOut = NotRun /\ splitOut = NotRun /\ passes = 0 /\ nesting = 0
  /\ flag \in BOOLEAN
  /\ fpc = "idle"
  /\ filterStr = <<>>
  /\ filterOut = NotRun
  /\ mpc = "metrics"
  /\ sourceMetrics \in Catalogs
  /\ mpos = 0
  /\ convertedMetrics = <<>>
  /\ modelMetrics = MeasureEntries
  /\ crossModelMetrics = <<>>
  /\ TimeIdle

NextMetric == ProcessSimple \/ ProcessDerived \/ ProcessRatio

SpecMetric == InitMetric /\ [][NextMetric]_vars

\* ---------------------------------------------------------------------------
\* Properties of the metric passes
\* ---------------------------------------------------------------------------

\* the metrics whose callback has run, in the order of the passes
Processed == SubSeq(PassOrder(sourceMetrics), 1, mpos)

InCrossModel(metric) == \E j \in 1..Len(crossModelMetrics) : crossModelMetrics[j] = metric

\* the entries the metric passes pushed, after those of the measures
PushedMetrics == SubSeq(modelMetrics, Len(semanticModel.measures) + 1, Len(modelMetrics))

OnModelList(n) == \E j \in 1..Len(PushedMetrics) : PushedMetrics[j].name = n

\* the names a metric references through its type-specific parameters
ReferencedNames(metric) ==
  IF metric.type = "simple" THEN {metric.measure}
  ELSE IF metric.type = "derived"
       THEN {metric.metrics[i].name : i \in 1..Len(metric.metrics)}
  ELSE {metric.numerator.name, metric.denominator.name}

\* the filters attached to a metric: its own, those of the entries of its
\* metrics list, and those of its numerator and denominator
AttachedFilters(metric) ==
  {f \in {metric.filter, metric.numerator.filter, metric.denominator.filter}
         \cup {metric.metrics[i].filter : i \in 1..Len(metric.metrics)} : JsTruthy(f)}

\* every Dimension(...) reference of a filter names an entity of the model
FilterOnEntities(f, friendly) ==
  LET dimRefs == findDimensionReferences(f, 0)
  IN  \A i \in 1..Len(dimRefs) :
        \E e \in 1..Len(semanticModel.entities) :
          semanticModel.entities[e].name = parseDimensionReference(dimRefs[i], friendly).modelName

Placeable(metric, allMetrics, friendly) ==
  /\ \A n \in ReferencedNames(metric) : Resolvable(n, semanticModel, allMetrics)
  /\ \A f \in AttachedFilters(metric) : FilterOnEntities(f, friendly)

\* C15: canAddMetricToModel returns true exactly when every measure or metric
\* the metric references through its type-specific parameters is a measure of
\* the model or a metric of the catalog, and every Dimension(...) reference in
\* any attached filter names an entity of the model. A processed metric is kept
\* out of crossModelMetrics exactly when canAddMetricToModel returned true.
C15_PlaceableIffResolvable ==
  mpc \in {"metrics", "thrown"} =>
    \A i \in 1..Len(Processed) :
      ~InCrossModel(Processed[i]) <=> Placeable(Processed[i], sourceMetrics, flag)

\* C16: a simple metric whose measure is not among the model's declared
\* measures is not on the model's metric list and is in crossModelMetrics.
C16_UndeclaredMeasureDeferred ==
  \A i \in 1..Len(Processed) :
    (Processed[i].type = "simple" /\ Processed[i].measure \notin MeasureNames) =>
      ~OnModelList(Processed[i].name) /\ InCrossModel(Processed[i])

\* C17: metric resolution ends normally for every catalog, also when a metric's
\* reference resolves to the metric itself or metrics reference each other in
\* a cycle: the call stack is never exhausted, and the metric without a
\* formula is left off the model's metric list.
C17_ResolutionTerminates == mpc # "thrown"

\* the ratio metric whose callback is next, with both sides resolved as
\* convertMetricToSigma resolves them: the numerator first, then the denominator
NextRatio == PassOrder(sourceMetrics)[mpos + 1]

NumeratorResolved ==
  buildSigmaMeasureFormula(NextRatio.numerator, sourceMetrics, convertedMetrics,
                           {NextRatio.name}, flag)

DenominatorResolved ==
  buildSigmaMeasureFormula(NextRatio.denominator, sourceMetrics, NumeratorResolved.cm,
                           {NextRatio.name}, flag)

BothResolve ==
  /\ ~NumeratorResolved.thrown /\ JsTruthy(NumeratorResolved.formula)
  /\ ~DenominatorResolved.thrown /\ JsTruthy(DenominatorResolved.formula)

RatioText(n, d) == <<"(">> \o n \o <<")", " ", "/", " ", "(">> \o d \o <<")">>

FilteredRefs(metric) ==
  {r \in {metric.numerator, metric.denominator}
         \cup {metric.metrics[i] : i \in 1..Len(metric.metrics)} :
     r # NoRef /\ ~r.str /\ JsTruthy(r.filter)}

\* the catalog metric a reference names is a simple metric on a declared
\* measure with a filter of its own
RefersToFilteredSimple(r) ==
  /\ HasName(sourceMetrics, r.name)
  /\ LET referenced == sourceMetrics[FindByName(sourceMetrics, r.name, 1)]
     IN  /\ referenced.type = "simple"
         /\ referenced.measure \in MeasureNames
         /\ JsTruthy(referenced.filter)

\* aggFunc([expr],(f1) and f2), or countif((f1) and f2) for count, for the
\* reference r to a filtered simple metric
CombinedText(r) ==
  LET referenced == sourceMetrics[FindByName(sourceMetrics, r.name, 1)]
      measure == semanticModel.measures[FindByName(semanticModel.measures,
                                                   referenced.measure, 1)]
      both == <<"(">> \o convertFilterToSigma(referenced.filter, flag) \o <<")">>
              \o <<" ", "a", "n", "d", " ">> \o convertFilterToSigma(r.filter, flag)
  IN  IF measure.agg = <<"c", "o", "u", "n", "t">>
      THEN <<"c", "o", "u", "n", "t", "i", "f", "(">> \o both \o <<")">>
      ELSE measure.agg \o <<"i", "f", "(", "[">> \o measure.expr \o <<"]", ",">>
           \o both \o <<")">>

\* the starts of the filter-function calls of a formula: the positions of "if("
FilterCalls(f) == {i \in 0..(Len(f) - 3) : StartsWithAt(f, <<"i", "f", "(">>, i)}

\* a filter-function call that starts before another one has ended
NestedFilterCall(f) ==
  \E i, j \in FilterCalls(f) :
    /\ i < j
    /\ \A k \in (i + 3)..j :
         CountChar(Substring(f, i + 3, k), ")") <= CountChar(Substring(f, i + 3, k), "(")

\* C19: when a reference with a filter f2 names a metric that was resolved
\* with a filter f1 of its own, the formula pushed for the referring metric
\* holds aggFunc([expr],(f1) and f2), or countif((f1) and f2) for count, for
\* that reference, and no pushed formula has a filter-function call inside
\* another.
C19_FiltersCombined ==
  /\ \A i \in 1..Len(Processed) :
       \A j \in 1..Len(PushedMetrics) :
         PushedMetrics[j].name = Processed[i].name /\ Processed[i].type # "simple" =>
           \A r \in FilteredRefs(Processed[i]) :
             RefersToFilteredSimple(r) =>
               IndexOf(PushedMetrics[j].formula, CombinedText(r), 0) # -1
  /\ \A j \in 1..Len(PushedMetrics) : ~NestedFilterCall(PushedMetrics[j].formula)

\* ---------------------------------------------------------------------------
\* Display names in bracketed references (part_004 lines 111-197, part_003
\* lines 107-119, part_005 lines 24-32)

\* an underscore stands inside a bracketed reference of the formula
UnderscoreInBrackets(f) ==
  \E i, k \in 1..Len(f) :
    /\ i < k
    /\ f[i] = "["
    /\ f[k] = "_"
    /\ \A m \in i..k : f[m] # "]"
    /\ \E j \in k..Len(f) : f[j] = "]"

\* C21: with the display-name flag set, every identifier surfaced into a
\* bracketed reference has its underscores replaced by spaces, whichever
\* producer wrote the reference: no formula on the model's metric list, be it
\* an unfiltered measure formula, a filtered measure formula or a rebuilt
\* filter-combined formula, holds an underscore inside a bracketed reference.
C21_DisplayNamesUniform ==
  flag => \A j \in 1..Len(modelMetrics) : ~UnderscoreInBrackets(modelMetrics[j].formula)

\* ---------------------------------------------------------------------------
\* Update mode and stored data model ids (build_dag.js lines 338-360, 385-470)

\* the step is the call of processDbtModel for model n, and convertSemantics
\* returned: the call reached the choice between updating and creating
ReachedSigmaWrite(n) ==
  /\ ppc = "models"
  /\ ppc' = "await"
  /\ CurrentModel.name = n
  /\ calls'[n].convert = "returned"

\* the step settles the call for model n with a success
SettlesWithSuccess(n) ==
  /\ calls[n].state # "settled" \/ ppc = "models"
  /\ calls'[n] # calls[n]
  /\ calls'[n].state = "settled"
  /\ calls'[n].result.success

S_time_spine == <<"t", "i", "m", "e", "_", "s", "p", "i", "n", "e">>

S_time_spine_ == <<"t", "i", "m", "e", "_", "s", "p", "i", "n", "e", "_">>

S_sep == <<"_", "_">>

S_day == <<"d", "a", "y">>

S_month == <<"m", "o", "n", "t", "h">>

S_quarter == <<"q", "u", "a", "r", "t", "e", "r">>

S_orders == <<"o", "r", "d", "e", "r", "s">>

S_close_date == <<"c", "l", "o", "s", "e", "_", "d", "a", "t", "e">>

S_qualified_date == <<"q", "u", "a", "l", "i", "f", "i", "e", "d", "_", "d", "a", "t", "e">>

S_status == <<"s", "t", "a", "t", "u", "s">>

S_date_day == <<"d", "a", "t", "e", "_", "d", "a", "y">>

S_month_start == <<"m", "o", "n", "t", "h", "_", "s", "t", "a", "r", "t">>

S_fiscal_quarter == <<"f", "i", "s", "c", "a", "l", "_", "q", "u", "a", "r", "t", "e", "r">>

\* the longest list of measures of a semantic model
MaxTimeMeasures == 2

\* extractAggTimeDimensions: the forEach over the measures
RECURSIVE AddMeasureDimensions(_, _)
AddMeasureDimensions(s, measures) ==
  IF measures = <<>> THEN s
  ELSE AddMeasureDimensions(IF JsTruthy(Head(measures).agg_time_dimension)
                              THEN SetAdd(s, Head(measures).agg_time_dimension)
                              ELSE s,
                            Tail(measures))

\* extractAggTimeDimensions. An absent defaults or type_params object is a record
\* whose property is undefined, and an absent list is an empty list: the
\* optional chaining and the guards of the code treat each pair alike.
extractAggTimeDimensions(sm) ==
  AddMeasureDimensions(IF JsTruthy(sm.defaults.agg_time_dimension)
                         THEN <<sm.defaults.agg_time_dimension>>
                         ELSE <<>>,
                       sm.measures)

\* Array.prototype.find on a list of records with a name: the index of the
\* first one with the name (0: none)
FirstNamed(list, n) == Least({i \in DOMAIN list : list[i].name = n}, 0)

\* findTimeGranularity
findTimeGranularity(sm, dimensionName) ==
  IF FirstNamed(sm.dimensions, dimensionName) = 0 THEN ExprNull
  ELSE IF sm.dimensions[FirstNamed(sm.dimensions, dimensionName)].type # "time" THEN ExprNull
  ELSE IF JsTruthy(sm.dimensions[FirstNamed(sm.dimensions, dimensionName)].type_params.time_granularity)
    THEN sm.dimensions[FirstNamed(sm.dimensions, dimensionName)].type_params.time_granularity
  ELSE ExprNull

\* buildTimeSpineGranularityMap: the callback of the forEach over the models
GranularityMapWith(m, model) ==
  IF FirstNamed(model.columns, model.time_spine.standard_granularity_column) = 0 THEN m
  ELSE IF ~JsTruthy(model.columns[FirstNamed(model.columns,
                       model.time_spine.standard_granularity_column)].granularity) THEN m
  ELSE MapSet(m, [name |-> model.columns[FirstNamed(model.columns,
                              model.time_spine.standard_granularity_column)].granularity,
                  standardGranularityColumn |-> model.time_spine.standard_granularity_column,
                  model |-> model])

\* buildTimeSpineGranularityMap: the forEach; a model without a time_spine
\* property throws, and the catch block keeps what the map holds by then
RECURSIVE GranularityMapFrom(_, _)
GranularityMapFrom(m, fileModels) ==
  IF fileModels = <<>> THEN m
  ELSE IF ~Head(fileModels).has_time_spine THEN m
  ELSE GranularityMapFrom(GranularityMapWith(m, Head(fileModels)), Tail(fileModels))

\* buildTimeSpineGranularityMap; a file is NULL when it does not exist
buildTimeSpineGranularityMap(file) ==
  IF file = NULL THEN <<>> ELSE GranularityMapFrom(<<>>, file)

\* the null findTimeSpineColumn returns
NoTimeSpine == [null |-> TRUE]

\* findTimeSpineColumn
findTimeSpineColumn(m, granularity) ==
  IF ~MapHas(m, granularity) THEN NoTimeSpine
  ELSE [columnName |-> MapGet(m, granularity).standardGranularityColumn,
        timeSpineName |-> IF JsTruthy(MapGet(m, granularity).model.name)
                            THEN MapGet(m, granularity).model.name
                            ELSE S_time_spine,
        granularity |-> granularity,
        model |-> MapGet(m, granularity).model]

\* String.prototype.toUpperCase
ToUpperCase(s) ==
  MapSeq(LAMBDA c : IF \E u \in DOMAIN UpperToLower : UpperToLower[u] = c
                      THEN CHOOSE u \in DOMAIN UpperToLower : UpperToLower[u] = c
                      ELSE c, s)

\* addTimeRelationships, step 4: a column of the time spine element
TimeSpineColumn(timeSpineElementId, timeSpineName, col, friendly) ==
  [id |-> timeSpineElementId \o S_sep \o col.name,
   name |-> IF friendly THEN convertToUserFriendlyName(col.name) ELSE col.name,
   description |-> IF JsTruthy(col.description) THEN col.description ELSE <<>>,
   formula |-> <<"[">> \o timeSpineName \o <<"/">>
               \o (IF friendly THEN convertToUserFriendlyName(col.name) ELSE col.name)
               \o <<"]">>]

\* addTimeRelationships, step 4: the time spine element
TimeSpineElement(timeSpineElementId, timeSpineInfo, friendly) ==
  [id |-> timeSpineElementId,
   name |-> timeSpineInfo.timeSpineName,
   description |-> <<"T", "i", "m", "e", " ", "s", "p", "i", "n", "e", " ", "t", "a", "b", "l", "e", " ", "f", "o", "r", " ">> \o timeSpineInfo.granularity \o <<" ", "g", "r", "a", "n", "u", "l", "a", "r", "i", "t", "y">>,
   kind |-> "table",
   source |-> [name |-> timeSpineInfo.timeSpineName, kind |-> "warehouse-table",
               connectionId |-> <<"$", "c", "o", "n", "n", "e", "c", "t", "i", "o", "n", "I", "d">>,
               path |-> <<<<"$", "d", "b">>, <<"$", "s", "c", "h", "e", "m", "a">>, ToUpperCase(timeSpineInfo.timeSpineName)>>],
   columns |-> MapSeq(LAMBDA col : TimeSpineColumn(timeSpineElementId,
                                                   timeSpineInfo.timeSpineName, col, friendly),
                      timeSpineInfo.model.columns),
   relationships |-> <<>>]

\* addTimeRelationships, step 5: the relationship
TimeRelationship(sm, dimension, timeSpineElementId, timeSpineInfo) ==
  [id |-> sm.name \o S_sep \o timeSpineElementId,
   name |-> sm.name \o S_sep \o timeSpineElementId,
   targetElementId |-> timeSpineElementId,
   keys |-> <<[sourceColumnId |-> sm.name \o S_sep \o dimension.name,
               targetColumnId |-> timeSpineElementId \o S_sep \o timeSpineInfo.columnName]>>,
   relationshipType |-> "N:1"]

\* semanticModel.entities?.find(entity => entity.type === 'primary'): its index (0: none)
PrimaryEntityOf(sm) ==
  Least({i \in DOMAIN sm.entities : sm.entities[i].type = "primary"}, 0)

\* targetData.pages[0].elements.find(el => el.id === ...): its index (0: none)
FirstIdentified(elements, id) == Least({i \in DOMAIN elements : elements[i].id = id}, 0)

\* primaryElement.relationships.push(relationship), on the first element whose
\* id is the primary entity's name; without such an element nothing is pushed
PushRelationship(elements, primaryName, relationship) ==
  IF FirstIdentified(elements, primaryName) = 0 THEN elements
  ELSE [elements EXCEPT ![FirstIdentified(elements, primaryName)].relationships =
          Append(@, relationship)]

\* a check that finds no granularity added yet
NeverAdded(added, granularity) == FALSE

\* addedTimeSpines.has(granularity)
AlreadyAdded(added, granularity) == MapHas(added, granularity)

\* addTimeRelationships: the callback of the forEach from step 4 on, for a
\* granularity whose time spine was found
ElementsWithTimeSpine(elements, sm, aggTimeDimension, granularity, timeSpineInfo, friendly) ==
  IF FirstNamed(sm.dimensions, aggTimeDimension) = 0
    THEN Append(elements,
                TimeSpineElement(S_time_spine_ \o granularity, timeSpineInfo, friendly))
    ELSE PushRelationship(
           Append(elements,
                  TimeSpineElement(S_time_spine_ \o granularity, timeSpineInfo, friendly)),
           sm.entities[PrimaryEntityOf(sm)].name,
           TimeRelationship(sm, sm.dimensions[FirstNamed(sm.dimensions, aggTimeDimension)],
                            S_time_spine_ \o granularity, timeSpineInfo))

\* addTimeRelationships: whether the callback of the forEach reaches step 4
ReachesStepFour(sm, aggTimeDimension, added, m) ==
  /\ JsTruthy(findTimeGranularity(sm, aggTimeDimension))
  /\ ~AlreadyAdded(added, findTimeGranularity(sm, aggTimeDimension))
  /\ findTimeSpineColumn(m, findTimeGranularity(sm, aggTimeDimension)) # NoTimeSpine

\* addTimeRelationships: steps 1 to 2.5, up to the forEach
AddTimeRelationshipsCall ==
  /\ tpc = "start"
  /\ aggTimeDimensions' = extractAggTimeDimensions(timeSemanticModel)
  /\ tpos' = 0
  /\ addedTimeSpines' = <<>>
  /\ IF Len(extractAggTimeDimensions(timeSemanticModel)) = 0
          \/ PrimaryEntityOf(timeSemanticModel) = 0
       THEN /\ tpc' = "done"
            /\ UNCHANGED timeSpineGranularityMap
       ELSE /\ tpc' = "loop"
            /\ timeSpineGranularityMap' = buildTimeSpineGranularityMap(timeSpineFile)
  /\ UNCHANGED <<timeSemanticModel, timeSpineFile, targetIn, targetData>>
  /\ UNCHANGED <<dagVars, procVars, exprVars, metricVars>>

\* addTimeRelationships: the callback of the forEach for one agg_time_dimension
AddForDimension ==
  /\ tpc = "loop"
  /\ tpos < Len(aggTimeDimensions)
  /\ IF ReachesStepFour(timeSemanticModel, aggTimeDimensions[tpos + 1], addedTimeSpines,
                        timeSpineGranularityMap)
       THEN /\ addedTimeSpines' =
                 MapSet(addedTimeSpines,
                        [name |-> findTimeGranularity(timeSemanticModel,
                                                      aggTimeDimensions[tpos + 1]),
                         elementId |-> S_time_spine_
                                       \o findTimeGranularity(timeSemanticModel,
                                                              aggTimeDimensions[tpos + 1])])
            /\ targetData' =
                 ElementsWithTimeSpine(
                   targetData, timeSemanticModel, aggTimeDimensions[tpos + 1],
                   findTimeGranularity(timeSemanticModel, aggTimeDimensions[tpos + 1]),
                   findTimeSpineColumn(timeSpineGranularityMap,
                                       findTimeGranularity(timeSemanticModel,
                                                           aggTimeDimensions[tpos + 1])),
                   flag)
       ELSE UNCHANGED <<addedTimeSpines, targetData>>
  /\ tpos' = tpos + 1
  /\ UNCHANGED <<tpc, timeSemanticModel, timeSpineFile, targetIn, aggTimeDimensions,
                 timeSpineGranularityMap>>
  /\ UNCHANGED <<dagVars, procVars, exprVars, metricVars>>

\* addTimeRelationships: the forEach is over and targetData is returned
AddTimeRelationshipsReturn ==
  /\ tpc = "loop"
  /\ tpos = Len(aggTimeDimensions)
  /\ tpc' = "done"
  /\ UNCHANGED <<timeSemanticModel, timeSpineFile, targetIn, targetData, aggTimeDimensions,
                 tpos, addedTimeSpines, timeSpineGranularityMap>>
  /\ UNCHANGED <<dagVars, procVars, exprVars, metricVars>>

\* the granularities of the corpus
Granularities == {S_day, S_month, S_quarter}

TimeDimension(n, g) ==
  [name |-> n, type |-> "time", type_params |-> [time_granularity |-> g]]

\* the dimension lists of the semantic model: close_date by day, qualified_date
\* by any granularity or without one, status categorical
DimensionLists ==
  {<<>>}
  \cup {<<TimeDimension(S_close_date, S_day), TimeDimension(S_qualified_date, g),
          [name |-> S_status, type |-> "categorical",
           type_params |-> [time_granularity |-> Undefined]]>> :
        g \in Granularities}
  \cup {<<TimeDimension(S_close_date, S_day),
          TimeDimension(S_qualified_date, Undefined),
          [name |-> S_status, type |-> "categorical",
           type_params |-> [time_granularity |-> Undefined]]>>}

AggTimeDimensionNames == {S_close_date, S_qualified_date, S_status}

\* the measure lists of the semantic model, by the agg_time_dimension of each measure
TimeMeasureLists ==
  UNION {[1..n -> [agg_time_dimension : AggTimeDimensionNames \cup {Undefined}]] :
              n \in 0..MaxTimeMeasures}

EntityLists ==
  {<<>>,
   <<[name |-> <<"c">>, type |-> "foreign"]>>,
   <<[name |-> <<"c">>, type |-> "foreign"], [name |-> <<"o">>, type |-> "primary"]>>}

TimeSemanticModels ==
  [name : {S_orders},
   defaults : [agg_time_dimension : {Undefined, S_close_date, S_qualified_date}],
   measures : TimeMeasureLists,
   dimensions : DimensionLists,
   entities : EntityLists]

\* the models of a time spine file: a daily spine, a monthly one, an unnamed
\* daily one, and one whose standard_granularity_column is not among its columns
DailySpine ==
  [name |-> S_time_spine,
   has_time_spine |-> TRUE,
   time_spine |-> [standard_granularity_column |-> S_date_day],
   columns |-> <<[name |-> S_date_day, granularity |-> S_day, description |-> Undefined],
                 [name |-> S_fiscal_quarter, granularity |-> S_quarter,
                  description |-> Undefined]>>]

MonthlySpine ==
  [name |-> <<"m", "o", "n", "t", "h", "l", "y">>,
   has_time_spine |-> TRUE,
   time_spine |-> [standard_granularity_column |-> S_month_start],
   columns |-> <<[name |-> S_month_start, granularity |-> S_month,
                  description |-> <<"f", "i", "r", "s", "t", " ", "d", "a", "y">>]>>]

UnnamedSpine ==
  [name |-> Undefined,
   has_time_spine |-> TRUE,
   time_spine |-> [standard_granularity_column |-> S_date_day],
   columns |-> <<[name |-> S_date_day, granularity |-> S_day, description |-> Undefined]>>]

ColumnlessSpine ==
  [name |-> <<"q", "u", "a", "r", "t", "e", "r", "l", "y">>,
   has_time_spine |-> TRUE,
   time_spine |-> [standard_granularity_column |-> S_fiscal_quarter],
   columns |-> <<>>]

\* a model of the file that is no time spine
PlainModel ==
  [name |-> <<"d", "i", "m", "_", "d", "a", "t", "e">>,
   has_time_spine |-> FALSE,
   time_spine |-> [standard_granularity_column |-> Undefined],
   columns |-> <<[name |-> S_date_day, granularity |-> Undefined, description |-> Undefined]>>]

TimeSpineFiles ==
  {NULL, <<DailySpine>>, <<DailySpine, MonthlySpine>>, <<DailySpine, UnnamedSpine>>,
   <<ColumnlessSpine, MonthlySpine>>, <<DailySpine, PlainModel, MonthlySpine>>}

\* the element convertSemantics built for the table of the primary entity
TableElement(id) ==
  [id |-> id, name |-> id, description |-> <<>>, kind |-> "table",
   source |-> [name |-> id, kind |-> "warehouse-table", connectionId |-> <<"$", "c", "o", "n", "n", "e", "c", "t", "i", "o", "n", "I", "d">>,
               path |-> <<<<"$", "d", "b">>, <<"$", "s", "c", "h", "e", "m", "a">>, ToUpperCase(id)>>],
   columns |-> <<>>, relationships |-> <<>>]

InitTime ==
  /\ DagIdle
  /\ ProcIdle
  /\ sigmaModelDir = [n \in Models |-> NULL]
  /\ testFlag = FALSE
  /\ epc = "idle" /\ input = <<>> /\ output = NotRun /\ output2 = NotRun /\ colrefs = NotRun
  /\ caseOut = NotRun /\ concatOut = NotRun /\ splitOut = NotRun /\ passes = 0 /\ nesting = 0
  /\ flag \in BOOLEAN
  /\ MetricIdle
  /\ tpc = "start"
  /\ timeSemanticModel \in TimeSemanticModels
  /\ timeSpineFile \in TimeSpineFiles
  /\ targetIn \in {<<TableElement(<<"o">>)>>, <<TableElement(<<"x">>)>>}
  /\ targetData = targetIn
  /\ aggTimeDimensions = <<>>
  /\ tpos = 0
  /\ addedTimeSpines = <<>>
  /\ timeSpineGranularityMap = <<>>

NextTime == AddTimeRelationshipsCall \/ AddForDimension \/ AddTimeRelationshipsReturn

SpecTime == InitTime /\ [][NextTime]_vars

\* ---------------------------------------------------------------------------
\* Properties of addTimeRelationships

\* the elements addTimeRelationships pushed
AddedElements == SubSeq(targetData, Len(targetIn) + 1, Len(targetData))

\* the relationship targets an element that was pushed, from the column of an
\* agg_time_dimension of the model to a column of that element
TargetsTimeSpine(r) ==
  \E e \in DOMAIN AddedElements, d \in DOMAIN aggTimeDimensions, g \in Granularities :
    /\ AddedElements[e].id = S_time_spine_ \o g
    /\ r.targetElementId = AddedElements[e].id
    /\ findTimeGranularity(timeSemanticModel, aggTimeDimensions[d]) = g
    /\ \E c \in DOMAIN AddedElements[e].columns :
         r.keys = <<[sourceColumnId |-> timeSemanticModel.name \o S_sep \o aggTimeDimensions[d],
                     targetColumnId |-> AddedElements[e].columns[c].id]>>
    /\ \E c \in DOMAIN timeSpineFile :
         /\ timeSpineFile[c].has_time_spine
         /\ r.keys[1].targetColumnId =
              S_time_spine_ \o g \o S_sep
              \o timeSpineFile[c].time_spine.standard_granularity_column

\* C23: addTimeRelationships adds at most one element per time granularity, with
\* the id time_spine_{granularity}, and nothing else; every relationship it
\* adds is added to the primary element and targets a time spine element that is
\* in the model, with the key {model}__{dimension} -> time_spine_{granularity}__{column};
\* a model without agg_time_dimension or without a primary entity gets its
\* target data back unchanged.
C23_TimeSpinePerGranularity ==
  /\ \A i \in DOMAIN AddedElements :
       /\ \E g \in Granularities : AddedElements[i].id = S_time_spine_ \o g
       /\ \A j \in DOMAIN AddedElements : AddedElements[j].id = AddedElements[i].id => i = j
       /\ AddedElements[i].relationships = <<>>
  /\ \A i \in DOMAIN targetIn :
       /\ [targetData[i] EXCEPT !.relationships = <<>>] = targetIn[i]
       /\ \A k \in DOMAIN targetData[i].relationships :
            /\ PrimaryEntityOf(timeSemanticModel) # 0
            /\ targetData[i].id
                 = timeSemanticModel.entities[PrimaryEntityOf(timeSemanticModel)].name
            /\ TargetsTimeSpine(targetData[i].relationships[k])
  /\ (tpc = "done" /\ (extractAggTimeDimensions(timeSemanticModel) = <<>>
                       \/ PrimaryEntityOf(timeSemanticModel) = 0))
       => targetData = targetIn

\* the call has returned for a model with three agg_time_dimensions, two of them
\* of the same granularity and one without any: one time spine element and one
\* relationship were added
C23_Witness ==
  /\ tpc = "done"
  /\ Len(aggTimeDimensions) = 3
  /\ \E a, b \in DOMAIN aggTimeDimensions :
       /\ a # b
       /\ findTimeGranularity(timeSemanticModel, aggTimeDimensions[a])
            = findTimeGranularity(timeSemanticModel, aggTimeDimensions[b])
       /\ JsTruthy(findTimeGranularity(timeSemanticModel, aggTimeDimensions[a]))
  /\ Len(AddedElements) = 1
  /\ Len(targetData[1].relationships) = 1

\* ---------------------------------------------------------------------------
\* The scan for the closing parenthesis (part_001 lines 9-34, part_002 lines
\* 7-65, main.js lines 165-174)

\* the position of the first ')' at depth 0 and outside a quoted literal, from
\* position i on; quote is the quote character of the literal the scan is in,
\* or NULL outside a literal
RECURSIVE ClosingOutsideQuotes(_, _, _, _)
ClosingOutsideQuotes(expr, i, level, quote) ==
  IF ~(i < Len(expr)) THEN -1
  ELSE IF quote # NULL
    THEN ClosingOutsideQuotes(expr, i + 1, level,
                              IF CharAt(expr, i) = quote THEN NULL ELSE quote)
  ELSE IF CharAt(expr, i) = "\"" \/ CharAt(expr, i) = "'"
    THEN ClosingOutsideQuotes(expr, i + 1, level, CharAt(expr, i))
  ELSE IF CharAt(expr, i) = "(" THEN ClosingOutsideQuotes(expr, i + 1, level + 1, NULL)
  ELSE IF CharAt(expr, i) = ")"
    THEN IF level = 0 THEN i ELSE ClosingOutsideQuotes(expr, i + 1, level - 1, NULL)
  ELSE ClosingOutsideQuotes(expr, i + 1, level, NULL)

\* the call of the function in the expression ends where a scan that skips
\* quoted literals finds its closing parenthesis
EndsOutsideQuotes(expr, name) ==
  CallSite(expr, name).index # -1 =>
    CallSite(expr, name).endPos
      = ClosingOutsideQuotes(expr, CallSite(expr, name).startPos, 0, NULL)

\* C24: the closing parenthesis of a CONCAT or SPLIT_PART call is found by a
\* scan that tracks the depth of the parentheses and skips quoted literals, as
\* the split of the arguments does: a parenthesis inside a quoted literal
\* neither changes the depth nor ends the call.
C24_QuoteAwareScan ==
  /\ concatOut # NotRun => EndsOutsideQuotes(input, S_concat)
  /\ splitOut # NotRun => EndsOutsideQuotes(input, S_split_part)

\* ---------------------------------------------------------------------------
\* Malformed CASE expressions (convertCase.js lines 25-52, 189-194)

\* the word stands at position i as a keyword: in any case, as a whole word and
\* outside a quoted literal
KeywordAt(s, word, i) ==
  /\ StartsWithAt(ToLowerCase(s), word, i)
  /\ (i = 0 \/ ~IsWordChar(CharAt(s, i - 1)))
  /\ (i + Len(word) = Len(s) \/ ~IsWordChar(CharAt(s, i + Len(word))))
  /\ ~InsideQuotes(Substring(s, 0, i))

HasKeyword(s, word) == \E i \in 0..Len(s) : KeywordAt(s, word, i)

\* a CASE expression without a terminating END keyword or without a WHEN clause
MalformedCase(expr) ==
  /\ CaseKeywordMatch(expr)
  /\ ~HasKeyword(expr, S_end) \/ ~HasKeyword(expr, S_when)

\* C25: convertCase returns null for a CASE expression that has no terminating
\* END keyword (an 'end' inside an identifier or a literal does not terminate
\* it) or no WHEN clause, and the translator then returns the text with nothing
\* changed but its identifiers bracketed.
C25_MalformedCaseIsNull ==
  MalformedCase(input)
    => /\ epc = "case" => caseOut = ExprNull
       /\ epc = "translated" => output = convertColumnReferences(input, flag)

\* ---------------------------------------------------------------------------
\* The final bracketing pass (part_003 lines 71-120)

\* the text [startPos, endPos) stands inside a bracketed reference: the nearest
\* bracket before it is a '[' and the nearest bracket after it is a ']'
InsideReference(s, startPos, endPos) ==
  /\ \E j \in 0..(startPos - 1) :
       /\ CharAt(s, j) = "["
       /\ \A k \in (j + 1)..(startPos - 1) : CharAt(s, k) \notin {"[", "]"}
  /\ \E j \in endPos..(Len(s) - 1) :
       /\ CharAt(s, j) = "]"
       /\ \A k \in endPos..(j - 1) : CharAt(s, k) \notin {"[", "]"}

\* the identifier at [startPos, endPos) is a bare column reference
BareIdentifier(s, startPos, endPos) ==
  /\ Substring(ToLowerCase(s), startPos, endPos) \notin sigmaFunctions
  /\ ~InsideQuotes(Substring(s, 0, startPos))
  /\ ~InsideReference(s, startPos, endPos)

\* the text from position i on with every bare identifier in brackets and
\* nothing else changed
RECURSIVE BareBracketedFrom(_, _, _)

BareBracketedAt(s, i, m, endPos, friendly) ==
  Substring(s, i, m)
    \o (IF BareIdentifier(s, m, endPos)
          THEN Bracketed(Substring(s, m, endPos), friendly)
          ELSE Substring(s, m, endPos))
    \o BareBracketedFrom(s, endPos, friendly)

BareBracketedMatch(s, i, m, friendly) ==
  IF m = -1 THEN SubstringFrom(s, i)
  ELSE BareBracketedAt(s, i, m, WordEnd(s, m), friendly)

BareBracketedFrom(s, i, friendly) ==
  BareBracketedMatch(s, i, Least({j \in i..(Len(s) - 1) : IsIdentStart(s, j)}, -1),
                     friendly)

\* C26: convertColumnReferences puts brackets around every identifier that is
\* not reserved, not inside a quoted literal and not inside a bracketed
\* reference, and changes nothing else; an identifier that stands between two
\* bracketed references, as b in [a] + b + [c], is bracketed.
C26_BracketsEveryBareIdentifier ==
  colrefs # NotRun
    => colrefs = BareBracketedFrom(NormalizeWhitespace(input), 0, flag)

\* ---------------------------------------------------------------------------
\* Substitution in a derived metric's expression (metrics/index.js lines 86-135)

\* the metric whose callback runs next
NextMetricInPass == PassOrder(sourceMetrics)[mpos + 1]

\* the formulas convertExpression resolves for the parts of the next metric's
\* expression, in the order of the parts
PartFormulas(metric) ==
  ConvertParts(parseExprParts(metric.expr), metric.metrics, sourceMetrics, convertedMetrics,
               {metric.name}, flag, <<>>)

\* the formula resolved for the part that equals word
FormulaOfWord(word, parts, formulas) ==
  formulas[CHOOSE k \in 1..Len(parts) : parts[k] = word]

\* the original expression from position i on with every identifier replaced
\* by the formula of its part, all at once
RECURSIVE SubstitutedFrom(_, _, _, _)

SubstitutedAt(expr, parts, formulas, i, m, wordEnd) ==
  Substring(expr, i, m)
    \o FormulaOfWord(Substring(expr, m, wordEnd), parts, formulas)
    \o SubstitutedFrom(expr, parts, formulas, wordEnd)

SubstitutedMatch(expr, parts, formulas, i, m) ==
  IF m = -1 THEN SubstringFrom(expr, i)
  ELSE SubstitutedAt(expr, parts, formulas, i, m, WordEnd(expr, m))

SubstitutedFrom(expr, parts, formulas, i) ==
  SubstitutedMatch(expr, parts, formulas, i,
                   Least({j \in i..(Len(expr) - 1) : IsIdentStart(expr, j)}, -1))

\* a derived metric is converted next and every part of its expression resolves
DerivedResolves(metric) ==
  /\ mpc = "metrics"
  /\ mpos < Len(PassOrder(sourceMetrics))
  /\ metric.type = "derived"
  /\ JsTruthy(metric.expr)
  /\ Len(metric.metrics) > 0
  /\ canAddMetricToModel(metric, semanticModel, sourceMetrics, flag)
  /\ ~PartFormulas(metric).thrown
  /\ PartFormulas(metric).formula # ExprNull

\* C27: the formula of a derived metric is its original expression with every
\* identifier replaced by the formula resolved for it, all at once: text that
\* an earlier substitution put in is not substituted again.
C27_SimultaneousSubstitution ==
  [][(DerivedResolves(NextMetricInPass) /\ mpos' = mpos + 1)
       => modelMetrics'
            = Append(modelMetrics,
                [name |-> NextMetricInPass.name,
                 formula |-> SubstitutedFrom(NextMetricInPass.expr,
                               parseExprParts(NextMetricInPass.expr),
                               PartFormulas(NextMetricInPass).formula, 0)])]_vars

\* ---------------------------------------------------------------------------
\* Bare-name references and records (metrics/index.js lines 52-73,
\* metric_analyzer.js lines 12-28, part_004 lines 14-18)

\* the record {name: n} for the bare name n; a record is left as it is
AsRecord(ref) == IF ref.str THEN ObjectRef(ref.name, Undefined, Undefined) ELSE ref

\* the metric with each bare-name reference written as a record
AsRecords(metric) ==
  [metric EXCEPT !.metrics = [i \in 1..Len(metric.metrics) |-> AsRecord(metric.metrics[i])],
                 !.numerator = AsRecord(metric.numerator),
                 !.denominator = AsRecord(metric.denominator)]

HasBareName(metric) == AsRecords(metric) # metric

\* the list of the model's metrics after the callback for a metric whose
\* conversion gave sigmaMetric
PushedFor(metric, sigmaMetric) ==
  IF ~sigmaMetric.thrown /\ JsTruthy(sigmaMetric.formula)
  THEN Append(modelMetrics, [name |-> metric.name, formula |-> sigmaMetric.formula])
  ELSE modelMetrics

\* the list of the model's metrics after the callback for a metric, had the
\* metric been written as other
ModelMetricsAs(metric, other) ==
  IF canAddMetricToModel(other, semanticModel, sourceMetrics, flag)
  THEN PushedFor(metric, convertMetricToSigma(other, sourceMetrics, convertedMetrics, {}, flag))
  ELSE modelMetrics

\* C28: a metric that refers to a measure or a metric by a bare name is handled
\* as the same metric with the records {name: ...} in place of the bare names:
\* it is placed on the model or deferred alike, and gets the same formula,
\* whether the name stands in type_params.metrics, as numerator or as denominator.
C28_BareNameLikeRecord ==
  [][(mpc = "metrics" /\ mpos' = mpos + 1 /\ HasBareName(NextMetricInPass))
       => /\ modelMetrics' = ModelMetricsAs(NextMetricInPass, AsRecords(NextMetricInPass))
          /\ (crossModelMetrics' # crossModelMetrics)
               = ~canAddMetricToModel(AsRecords(NextMetricInPass), semanticModel,
                                      sourceMetrics, flag)]_vars

\* ---------------------------------------------------------------------------
\* The cached formula objects (part_004 lines 44-87, metrics/index.js lines 210-220)

\* C29: converting a metric leaves the cached formula object of every other
\* catalog metric as it was, whatever filters its references to that metric
\* carry, so that a later reference finds the metric's own formula and filter.
C29_CachedFormulaKept ==
  [][\A n \in DOMAIN convertedMetrics :
       (/\ mpos' = mpos + 1
        /\ HasName(sourceMetrics, n)
        /\ n # NextMetricInPass.name)
         => convertedMetrics'[n] = convertedMetrics[n]]_vars

\* ---------------------------------------------------------------------------
\* The filter of a reference (part_004 lines 59-87, 168-197)

\* C30: the formula of a derived or ratio metric holds the converted filter of
\* each of its references that carries one, whether the reference names a
\* measure, a metric with a filter of its own or a metric without any filter.
C30_ReferenceFilterApplied ==
  \A i \in 1..Len(Processed) :
    \A j \in 1..Len(PushedMetrics) :
      PushedMetrics[j].name = Processed[i].name /\ Processed[i].type # "simple" =>
        \A r \in FilteredRefs(Processed[i]) :
          IndexOf(PushedMetrics[j].formula, convertFilterToSigma(r.filter, flag), 0) # -1

====
